---- MODULE Spec2Model ----
(***************************************************************************)
(* A model of the NFS-style file server of wrd233/ECE566-nfs: the local    *)
(* filesystem core (pkg/fs/local/local_fs.go), the handle codec            *)
(* (pkg/fs/handle.go) and the request handlers (pkg/server/server.go).     *)
(*                                                                         *)
(* Strings are sequences of one-character strings, so that the lexical     *)
(* path operations (Clean, Join, HasPrefix) are computed character by      *)
(* character as the Go library computes them.                              *)
(***************************************************************************)
EXTENDS Integers, Sequences, FiniteSets, TLC

\* ------------------------------------------------------------------ bounds
\* Longest host path (in characters) an operation of the model may create.
MaxPathLen == 4
\* Longest file content, in bytes.
MaxFileLen == 4
\* Largest inode number the host hands out.
MaxInode == 8
\* Largest value of the server clock (time.Now().UnixNano(), scaled).
MaxClock == 1
\* Number of calls a behaviour makes.
MaxOps == 2
\* Config.MaxConcurrent (100 by default), scaled.
MaxConcurrent == 2
\* Number of requests in flight at once.
NumRequests == 3
\* Config.RequestTimeout (30 seconds by default), scaled to units of waiting.
RequestTimeout == 1

\* ------------------------------------------------------------------ strings
SLASH == "/"

DOT == <<".">>

DOTDOT == <<".", ".">>

\* byte order of the characters the model uses (ASCII)
CharOrd(c) ==
  CASE c = "." -> 46
    [] c = "/" -> 47
    [] c = "2" -> 50
    [] c = "a" -> 97
    [] c = "d" -> 100
    [] c = "e" -> 101
    [] c = "s" -> 115
    [] c = "x" -> 120
    [] OTHER -> 0

\* binds the value of a call to a name, as := does in the source: the value
\* is computed once, before the rest runs
Let(v, F(_)) == CHOOSE r \in {F(x) : x \in {v}} : TRUE

\* strings.HasPrefix(s, prefix)
HasPrefix(s, prefix) ==
  /\ Len(s) >= Len(prefix)
  /\ SubSeq(s, 1, Len(prefix)) = prefix

\* strings.TrimPrefix(s, prefix)
TrimPrefix(s, prefix) ==
  IF HasPrefix(s, prefix) THEN SubSeq(s, Len(prefix) + 1, Len(s)) ELSE s

\* a < b in byte-wise lexicographic order (Go's string comparison)
RECURSIVE StrLess(_, _)
StrLess(a, b) ==
  IF b = <<>> THEN FALSE
  ELSE IF a = <<>> THEN TRUE
  ELSE IF CharOrd(Head(a)) # CharOrd(Head(b)) THEN CharOrd(Head(a)) < CharOrd(Head(b))
  ELSE StrLess(Tail(a), Tail(b))

\* strings.Split(s, "/"): the components between separators, empty ones kept
RECURSIVE Split(_)
Split(s) ==
  IF s = <<>> THEN << <<>> >>
  ELSE LET rest == Split(Tail(s))
       IN IF Head(s) = SLASH THEN << <<>> >> \o rest
          ELSE << <<Head(s)>> \o Head(rest) >> \o Tail(rest)

\* strings.Join(comps, "/")
RECURSIVE JoinComps(_)
JoinComps(comps) ==
  IF comps = <<>> THEN <<>>
  ELSE IF Len(comps) = 1 THEN Head(comps)
  ELSE Head(comps) \o <<SLASH>> \o JoinComps(Tail(comps))

\* The component stack of filepath.Clean: "." and empty components are dropped,
\* ".." removes the last real component, is dropped at the root of a rooted
\* path and is kept at the front of a relative one.
RECURSIVE CleanComps(_, _, _)
CleanComps(comps, out, rooted) ==
  IF comps = <<>> THEN out
  ELSE LET c == Head(comps)
           rest == Tail(comps)
       IN IF c = <<>> \/ c = DOT THEN CleanComps(rest, out, rooted)
          ELSE IF c = DOTDOT
               THEN IF out # <<>> /\ out[Len(out)] # DOTDOT
                    THEN CleanComps(rest, SubSeq(out, 1, Len(out) - 1), rooted)
                    ELSE IF rooted THEN CleanComps(rest, out, rooted)
                    ELSE CleanComps(rest, Append(out, c), rooted)
               ELSE CleanComps(rest, Append(out, c), rooted)

\* filepath.Clean(path)
Clean(path) ==
  IF path = <<>> THEN DOT
  ELSE Let(CleanComps(Split(path), <<>>, Head(path) = SLASH), LAMBDA out :
         IF Head(path) = SLASH THEN <<SLASH>> \o JoinComps(out)
         ELSE IF out = <<>> THEN DOT ELSE JoinComps(out))

\* filepath.Join(a, b): empty elements are ignored, the rest joined and cleaned
Join(a, b) ==
  IF a = <<>> /\ b = <<>> THEN <<>>
  ELSE Clean(IF a = <<>> THEN b ELSE IF b = <<>> THEN a ELSE a \o <<SLASH>> \o b)

\* index of the last separator of s, 0 when there is none
RECURSIVE LastSlash(_, _)
LastSlash(s, i) ==
  IF i = 0 THEN 0 ELSE IF s[i] = SLASH THEN i ELSE LastSlash(s, i - 1)

\* filepath.Dir(path)
Dir(path) == Clean(SubSeq(path, 1, LastSlash(path, Len(path))))

\* filepath.Base of a clean rooted path: its last component
Base(path) == SubSeq(path, LastSlash(path, Len(path)) + 1, Len(path))


\* ------------------------------------------------------------------ handle codec
\* pkg/fs/handle.go. A uint32 is kept as its two 16-bit halves <<hi, lo>>, so
\* that the arithmetic modulo 2^32 is exact.
Half == 256 * 256

U32(n) == <<n \div Half, n % Half>>

\* binary.BigEndian.PutUint32
PutUint32(u) == <<u[1] \div 256, u[1] % 256, u[2] \div 256, u[2] % 256>>

\* binary.BigEndian.Uint32
Uint32(b) == <<b[1] * 256 + b[2], b[3] * 256 + b[4]>>

\* binary.BigEndian.PutUint64 of an inode number below 2^31
RECURSIVE PutBytes(_, _)
PutBytes(n, k) ==
  IF k = 0 THEN <<>> ELSE Append(PutBytes(n \div 256, k - 1), n % 256)

PutUint64(n) == PutBytes(n, 8)

\* binary.BigEndian.Uint64 (the handles of the model keep the high bytes zero)
RECURSIVE GetBytes(_)
GetBytes(b) ==
  IF b = <<>> THEN 0 ELSE GetBytes(SubSeq(b, 1, Len(b) - 1)) * 256 + b[Len(b)]

Uint64(b) == GetBytes(b)

\* FileHandle.Size
HandleSize == 16

\* FileHandle.Serialize: fs_id, inode, generation, big-endian
Serialize(fh) ==
  PutUint32(fh.FileSystemID) \o PutUint64(fh.Inode) \o PutUint32(U32(fh.Generation))

\* DeserializeFileHandle: an error for fewer than 16 bytes, else the first 16
DeserializeFileHandle(data) ==
  IF Len(data) < HandleSize
  THEN [err |-> "handle data too short", fh |-> [FileSystemID |-> U32(0), Inode |-> 0, Generation |-> 0]]
  ELSE [err |-> "",
        fh |-> [FileSystemID |-> Uint32(SubSeq(data, 1, 4)),
                Inode |-> Uint64(SubSeq(data, 5, 12)),
                Generation |-> LET g == Uint32(SubSeq(data, 13, 16)) IN g[1] * Half + g[2]]]

\* generateFsID: h = h*31 + c over the characters of the root, modulo 2^32
RECURSIVE generateFsIDFrom(_, _)
generateFsIDFrom(h, path) ==
  IF path = <<>> THEN h
  ELSE LET lo == h[2] * 31 + CharOrd(Head(path))
           hi == h[1] * 31 + (lo \div Half)
       IN generateFsIDFrom(<<hi % Half, lo % Half>>, Tail(path))

generateFsID(path) == generateFsIDFrom(U32(0), path)


\* ------------------------------------------------------------------ host filesystem
\* The state of the filesystem core is threaded through the operations as a
\* record w ("world"): tree maps each existing host path to its inode number,
\* ino maps each inode in use to its attributes and content, inodeMap and
\* generationMap are the two sync.Maps of LocalFileSystem.

\* f with key k set to v
Put(f, k, v) == [x \in (DOMAIN f) \cup {k} |-> IF x = k THEN v ELSE f[x]]

\* f without the keys in ks
Drop(f, ks) == [x \in (DOMAIN f) \ ks |-> f[x]]

\* the export root: LocalFileSystem.rootPath
rootPath == <<"/", "e">>

\* LocalFileSystem.fsID
fsID == generateFsID(rootPath)

\* the identity the server process runs under (root: the host denies it nothing)
ServerUid == 0

\* stat(2): "" and the inode, or ENOENT, or ENOTDIR when a prefix is a file
RECURSIVE HostStat(_, _)
HostStat(w, p) ==
  IF p \in DOMAIN w.tree THEN [errno |-> "", n |-> w.tree[p]]
  ELSE IF p = <<SLASH>> THEN [errno |-> "ENOENT", n |-> 0]
  ELSE Let(HostStat(w, Dir(p)), LAMBDA up :
         IF up.errno # "" THEN up
         ELSE IF w.ino[up.n].type = "dir" THEN [errno |-> "ENOENT", n |-> 0]
         ELSE [errno |-> "ENOTDIR", n |-> 0])

\* p is q or lies below q
Under(p, q) == p = q \/ HasPrefix(p, IF q = <<SLASH>> THEN q ELSE q \o <<SLASH>>)

\* the names in directory p, sorted by filename as os.ReadDir returns them
Children(w, p) == {q \in DOMAIN w.tree : q # p /\ Dir(q) = p}

RECURSIVE SortNames(_)
SortNames(S) ==
  IF S = {} THEN <<>>
  ELSE LET m == CHOOSE a \in S : \A b \in S \ {a} : StrLess(a, b)
       IN <<m>> \o SortNames(S \ {m})

HostReadDir(w, p) == SortNames({Base(q) : q \in Children(w, p)})

\* the inodes no path names any more are freed
Reap(w) ==
  [w EXCEPT !.ino = [n \in {w.tree[q] : q \in DOMAIN w.tree} |-> w.ino[n]]]

\* mapOSError: the class tests of package os first, then the switch on the
\* errno of a *PathError (a *LinkError, as os.Rename returns, never matches it)
mapOSError(kind, errno) ==
  IF errno = "ENOENT" THEN "ErrNotExist"
  ELSE IF errno \in {"EACCES", "EPERM"} THEN "ErrPermission"
  ELSE IF errno \in {"EEXIST", "ENOTEMPTY"} THEN "ErrExist"
  ELSE IF kind = "PathError" /\ errno = "ENOTEMPTY" THEN "ErrNotEmpty"
  ELSE IF kind = "PathError" /\ errno = "EINVAL" THEN "ErrInvalidName"
  ELSE IF kind = "PathError" /\ errno = "ENOSPC" THEN "ErrNoSpace"
  ELSE "ErrIO"

\* ------------------------------------------------------------------ filesystem core
\* pkg/fs/local/local_fs.go

\* resolvePath: trim one leading slash, clean, join onto the root, and accept
\* whatever still has the root as a string prefix
resolvePath(path) ==
  Let(Join(rootPath, Clean(TrimPrefix(path, <<SLASH>>))), LAMBDA fullPath :
    IF ~HasPrefix(fullPath, rootPath)
    THEN [err |-> "ErrInvalidName", full |-> <<>>]
    ELSE [err |-> "", full |-> fullPath])

\* getInode
getInode(w, path) ==
  Let(resolvePath(path), LAMBDA r :
    IF r.err # "" THEN [err |-> r.err, n |-> 0]
    ELSE Let(HostStat(w, r.full), LAMBDA st :
      IF st.errno # "" THEN [err |-> mapOSError("PathError", st.errno), n |-> 0]
      ELSE [err |-> "", n |-> st.n]))

\* a generation numbering that counts the inodes in the order they are first seen
getGeneration_Counted(w, inode) ==
  IF inode \in DOMAIN w.generationMap
  THEN [gen |-> w.generationMap[inode], w |-> w]
  ELSE Let(Cardinality(DOMAIN w.generationMap) + 1, LAMBDA gen :
         [gen |-> gen, w |-> [w EXCEPT !.generationMap = Put(@, inode, gen)]])

\* getGeneration: the stored generation, or 1 stored on first sight
getGeneration(w, inode) ==
  IF inode \in DOMAIN w.generationMap
  THEN [gen |-> w.generationMap[inode], w |-> w]
  ELSE [gen |-> 1, w |-> [w EXCEPT !.generationMap = Put(@, inode, 1)]]

\* updateInodeMap
updateInodeMap(w, path, inode) == [w EXCEPT !.inodeMap = Put(@, inode, path)]

\* lookupPathByInode
lookupPathByInode(w, inode) ==
  IF inode \in DOMAIN w.inodeMap
  THEN [ok |-> TRUE, path |-> w.inodeMap[inode]]
  ELSE [ok |-> FALSE, path |-> <<>>]

\* the attributes convertFileInfo reads off a stat buffer
FileInfoOf(w, n) ==
  [Type |-> w.ino[n].type, Mode |-> w.ino[n].mode, Size |-> Len(w.ino[n].data),
   Uid |-> w.ino[n].uid, Gid |-> w.ino[n].gid, Ino |-> n]

NoInfo == [Type |-> "none", Mode |-> 0, Size |-> 0, Uid |-> 0, Gid |-> 0, Ino |-> 0]

\* convertFileInfo: the attributes, and the inode map updated with the path given
convertFileInfo(w, path, n) ==
  [info |-> FileInfoOf(w, n), w |-> updateInodeMap(w, path, n)]

\* GetAttr (with getFileInfo): host is whether a host call was made
GetAttr(w, path) ==
  Let(resolvePath(path), LAMBDA r :
    IF r.err # "" THEN [err |-> r.err, info |-> NoInfo, w |-> w, host |-> FALSE]
    ELSE Let(HostStat(w, r.full), LAMBDA st :
      IF st.errno # ""
      THEN [err |-> mapOSError("PathError", st.errno), info |-> NoInfo, w |-> w,
            host |-> TRUE]
      ELSE Let(convertFileInfo(w, path, st.n), LAMBDA c :
        [err |-> "", info |-> c.info, w |-> c.w, host |-> TRUE])))

\* Walk order of filepath.Walk: a directory before its entries, entries by name
RECURSIVE CompsLess(_, _)
CompsLess(a, b) ==
  IF b = <<>> THEN FALSE
  ELSE IF a = <<>> THEN TRUE
  ELSE IF Head(a) # Head(b) THEN StrLess(Head(a), Head(b))
  ELSE CompsLess(Tail(a), Tail(b))

\* filepath.Rel(rootPath, p) for p under the root
Rel(p) == IF p = rootPath THEN DOT ELSE SubSeq(p, Len(rootPath) + 2, Len(p))

\* the first of a set of paths in the order of filepath.Walk
FirstHit(hits) ==
  CHOOSE p \in hits : \A q \in hits \ {p} : CompsLess(Split(p), Split(q))

\* a walk that finds nothing
findPathByInode_Blind(w, targetInode) == [err |-> "not found", path |-> <<>>]

\* findPathByInode: the first path of the walk of the root with the inode
findPathByInode(w, targetInode) ==
  Let({p \in DOMAIN w.tree : Under(p, rootPath) /\ w.tree[p] = targetInode}, LAMBDA hits :
    IF hits = {} THEN [err |-> "not found", path |-> <<>>]
    ELSE Let(Rel(FirstHit(hits)), LAMBDA relPath :
      [err |-> "",
       path |-> IF relPath = DOT THEN <<SLASH>> ELSE <<SLASH>> \o relPath]))

\* FileHandleToPath
FileHandleToPath(w, fh) ==
  Let(DeserializeFileHandle(fh), LAMBDA d :
    IF d.err # "" THEN [err |-> "ErrInvalidHandle", path |-> <<>>, w |-> w]
    ELSE IF d.fh.FileSystemID # fsID THEN [err |-> "ErrStale", path |-> <<>>, w |-> w]
    ELSE Let(lookupPathByInode(w, d.fh.Inode), LAMBDA hit :
      IF hit.ok THEN [err |-> "", path |-> hit.path, w |-> w]
      ELSE Let(findPathByInode(w, d.fh.Inode), LAMBDA walk :
        IF walk.err # "" THEN [err |-> "ErrStale", path |-> <<>>, w |-> w]
        ELSE [err |-> "", path |-> walk.path,
              w |-> updateInodeMap(w, walk.path, d.fh.Inode)])))

\* PathToFileHandle that forgets to record the path it was given
PathToFileHandle_Unrecorded(w, path) ==
  Let(getInode(w, path), LAMBDA i :
    IF i.err # "" THEN [err |-> i.err, fh |-> <<>>, w |-> w]
    ELSE Let(getGeneration(w, i.n), LAMBDA g :
      [err |-> "",
       fh |-> Serialize([FileSystemID |-> fsID, Inode |-> i.n, Generation |-> g.gen]),
       w |-> g.w]))

\* PathToFileHandle
PathToFileHandle(w, path) ==
  Let(getInode(w, path), LAMBDA i :
    IF i.err # "" THEN [err |-> i.err, fh |-> <<>>, w |-> w]
    ELSE Let(getGeneration(w, i.n), LAMBDA g :
      [err |-> "",
       fh |-> Serialize([FileSystemID |-> fsID, Inode |-> i.n, Generation |-> g.gen]),
       w |-> updateInodeMap(g.w, path, i.n)]))


\* Lookup: the directory is resolved and must be a directory; the target is
\* the lexical join of dir and name
Lookup(w, dir, name) ==
  Let(resolvePath(dir), LAMBDA r :
    IF r.err # "" THEN [err |-> r.err, path |-> <<>>, info |-> NoInfo, w |-> w]
    ELSE Let(HostStat(w, r.full), LAMBDA st :
      IF st.errno # ""
      THEN [err |-> mapOSError("PathError", st.errno), path |-> <<>>, info |-> NoInfo,
            w |-> w]
      ELSE IF w.ino[st.n].type # "dir"
      THEN [err |-> "ErrNotDir", path |-> <<>>, info |-> NoInfo, w |-> w]
      ELSE Let(Join(dir, name), LAMBDA targetName :
        Let(GetAttr(w, targetName), LAMBDA t :
          IF t.err # "" THEN [err |-> t.err, path |-> <<>>, info |-> NoInfo, w |-> w]
          ELSE [err |-> "", path |-> targetName, info |-> t.info, w |-> t.w]))))

\* io.ReadFull into a buffer cut at the end of the file: at most length bytes,
\* from offset
ReadFull(data, offset, length) ==
  SubSeq(data, offset + 1,
         IF offset + length > Len(data) THEN Len(data) ELSE offset + length)

\* Read: offset is the int64 the server converted the wire offset to
Read(w, path, offset, length) ==
  Let(resolvePath(path), LAMBDA r :
    IF r.err # "" THEN [err |-> r.err, data |-> <<>>, eof |-> FALSE]
    ELSE Let(HostStat(w, r.full), LAMBDA st :
      IF st.errno # ""
      THEN [err |-> mapOSError("PathError", st.errno), data |-> <<>>, eof |-> FALSE]
      ELSE IF w.ino[st.n].type = "dir"
      THEN [err |-> "ErrIsDir", data |-> <<>>, eof |-> FALSE]
      ELSE Let(Len(w.ino[st.n].data), LAMBDA fileSize :
        IF offset >= fileSize THEN [err |-> "", data |-> <<>>, eof |-> TRUE]
        \* file.Seek to a negative offset fails with EINVAL
        ELSE IF offset < 0
        THEN [err |-> mapOSError("PathError", "EINVAL"), data |-> <<>>, eof |-> FALSE]
        ELSE Let(ReadFull(w.ino[st.n].data, offset, length), LAMBDA buffer :
          [err |-> "", data |-> buffer, eof |-> (offset + Len(buffer) >= fileSize)]))))

\* the content after write(2) of data at offset: a gap is filled with zeros
RECURSIVE Zeros(_)
Zeros(k) == IF k <= 0 THEN <<>> ELSE <<0>> \o Zeros(k - 1)

\* a write that leaves the content as it was
WriteAt_Nothing(old, offset, data) == old

WriteAt(old, offset, data) ==
  IF data = <<>> THEN old
  ELSE SubSeq(old, 1, IF offset < Len(old) THEN offset ELSE Len(old))
       \o Zeros(offset - Len(old)) \o data
       \o SubSeq(old, offset + Len(data) + 1, Len(old))

\* Write (sync only flushes: it changes nothing the model observes)
Write(w, path, offset, data, sync) ==
  Let(resolvePath(path), LAMBDA r :
    IF r.err # "" THEN [err |-> r.err, n |-> 0, w |-> w]
    ELSE Let(HostStat(w, r.full), LAMBDA st :
      IF st.errno # "" THEN [err |-> mapOSError("PathError", st.errno), n |-> 0, w |-> w]
      ELSE IF w.ino[st.n].type = "dir" THEN [err |-> "ErrIsDir", n |-> 0, w |-> w]
      ELSE IF offset < 0 THEN [err |-> mapOSError("PathError", "EINVAL"), n |-> 0, w |-> w]
      ELSE [err |-> "", n |-> Len(data),
            w |-> [w EXCEPT !.ino[st.n].data = WriteAt(@, offset, data)]]))

\* bitwise and of two rwx triples (0..7)
And3(a, b) ==
  4 * ((a \div 4) * (b \div 4)) + 2 * (((a \div 2) % 2) * ((b \div 2) % 2)) + (a % 2) * (b % 2)

\* containsGroup
containsGroup(groups, gid) == gid \in groups

\* the permission bits Access checks: the owner's, the group's or the others'
\* a classification that always selects the other bits
checkPerm_Other(f, creds) == (f.mode % 512) % 8

checkPerm(f, creds) ==
  IF f.uid = creds.UID THEN ((f.mode % 512) \div 64) % 8
  ELSE IF f.gid = creds.GID \/ containsGroup(creds.Groups, f.gid)
       THEN ((f.mode % 512) \div 8) % 8
       ELSE (f.mode % 512) % 8

\* Access: owner, group or other bits by the credentials, all required bits needed
Access(w, path, mode, creds) ==
  Let(resolvePath(path), LAMBDA r :
    IF r.err # "" THEN r.err
    ELSE Let(HostStat(w, r.full), LAMBDA st :
      IF st.errno # "" THEN mapOSError("PathError", st.errno)
      ELSE IF And3(mode % 8, checkPerm(w.ino[st.n], creds)) # mode % 8
      THEN "ErrPermission"
      ELSE ""))

\* a fresh regular file or directory as the host creates it for the server
NewInode(type, perm) ==
  [type |-> type, mode |-> perm, uid |-> ServerUid, gid |-> ServerUid, data |-> <<>>]

\* open(2) with O_RDWR|O_CREATE|O_TRUNC: fresh is the inode number the host
\* picks for a new file
HostCreate(w, p, perm, fresh) ==
  Let(HostStat(w, p), LAMBDA st :
    IF st.errno = ""
    THEN IF w.ino[st.n].type = "dir" THEN [errno |-> "EISDIR", w |-> w]
         ELSE [errno |-> "", w |-> [w EXCEPT !.ino[st.n].data = <<>>]]
    ELSE Let(HostStat(w, Dir(p)), LAMBDA up :
      IF up.errno # "" THEN [errno |-> up.errno, w |-> w]
      ELSE IF w.ino[up.n].type # "dir" THEN [errno |-> "ENOTDIR", w |-> w]
      ELSE [errno |-> "",
            w |-> [w EXCEPT !.tree = Put(@, p, fresh),
                            !.ino = Put(@, fresh, NewInode("reg", perm))]]))

\* the result of a Create or Mkdir that failed with e
NoObject(e, w) == [err |-> e, path |-> <<>>, info |-> NoInfo, w |-> w]

\* an exclusive create that does not look whether the name exists
exclCheck_Skipped(excl, errno) == ""

\* the check for exclusive create: errno is that of the stat of the new path;
\* the result is the error Create fails with, or "" to go on
exclCheck(excl, errno) ==
  IF ~excl THEN ""
  ELSE IF errno = "" THEN "ErrExist"
  ELSE IF errno # "ENOENT" THEN mapOSError("PathError", errno)
  ELSE ""

\* Create: attrMode is the requested mode or -1 for none (the other attributes
\* of the request are absent)
Create(w, dir, name, attrMode, excl, fresh) ==
  Let(resolvePath(dir), LAMBDA r :
    IF r.err # "" THEN NoObject(r.err, w)
    ELSE Let(HostStat(w, r.full), LAMBDA st :
      IF st.errno # "" THEN NoObject(mapOSError("PathError", st.errno), w)
      ELSE IF w.ino[st.n].type # "dir" THEN NoObject("ErrNotDir", w)
      ELSE Let(Join(r.full, name), LAMBDA newFilePath :
        Let(exclCheck(excl, HostStat(w, newFilePath).errno), LAMBDA exists :
          IF exists # "" THEN NoObject(exists, w)
          ELSE Let(HostCreate(w, newFilePath, IF attrMode >= 0 THEN attrMode ELSE 420,
                              fresh), LAMBDA made :
            IF made.errno # "" THEN NoObject(mapOSError("PathError", made.errno), w)
            ELSE Let(Join(dir, name), LAMBDA newFileRelPath :
              Let(convertFileInfo(made.w, newFileRelPath, made.w.tree[newFilePath]),
                  LAMBDA c :
                [err |-> "", path |-> newFileRelPath, info |-> c.info, w |-> c.w])))))))

\* mkdir(2)
HostMkdir(w, p, perm, fresh) ==
  Let(HostStat(w, p), LAMBDA st :
    IF st.errno = "" THEN [errno |-> "EEXIST", w |-> w]
    ELSE Let(HostStat(w, Dir(p)), LAMBDA up :
      IF up.errno # "" THEN [errno |-> up.errno, w |-> w]
      ELSE IF w.ino[up.n].type # "dir" THEN [errno |-> "ENOTDIR", w |-> w]
      ELSE [errno |-> "",
            w |-> [w EXCEPT !.tree = Put(@, p, fresh),
                            !.ino = Put(@, fresh, NewInode("dir", perm))]]))

\* Mkdir
Mkdir(w, dir, name, attrMode, fresh) ==
  Let(resolvePath(dir), LAMBDA r :
    IF r.err # "" THEN NoObject(r.err, w)
    ELSE Let(HostStat(w, r.full), LAMBDA st :
      IF st.errno # "" THEN NoObject(mapOSError("PathError", st.errno), w)
      ELSE IF w.ino[st.n].type # "dir" THEN NoObject("ErrNotDir", w)
      ELSE Let(Join(r.full, name), LAMBDA newDirPath :
        Let(HostMkdir(w, newDirPath, IF attrMode >= 0 THEN attrMode ELSE 493, fresh),
            LAMBDA made :
          IF made.errno # "" THEN NoObject(mapOSError("PathError", made.errno), w)
          ELSE Let(Join(dir, name), LAMBDA newDirRelPath :
            Let(convertFileInfo(made.w, newDirRelPath, made.w.tree[newDirPath]),
                LAMBDA c :
              [err |-> "", path |-> newDirRelPath, info |-> c.info, w |-> c.w]))))))

\* Remove
Remove(w, path) ==
  Let(resolvePath(path), LAMBDA r :
    IF r.err # "" THEN [err |-> r.err, w |-> w]
    ELSE Let(HostStat(w, r.full), LAMBDA st :
      IF st.errno # "" THEN [err |-> mapOSError("PathError", st.errno), w |-> w]
      ELSE IF w.ino[st.n].type = "dir" THEN [err |-> "ErrIsDir", w |-> w]
      ELSE [err |-> "", w |-> Reap([w EXCEPT !.tree = Drop(@, {r.full})])]))

\* a removal that never looks at what the path names
Rmdir_Forced(w, path) ==
  Let(resolvePath(path), LAMBDA r :
    IF r.err # "" THEN [err |-> r.err, w |-> w]
    ELSE [err |-> "",
          w |-> Reap([w EXCEPT !.tree = Drop(@, {q \in DOMAIN @ : Under(q, r.full)})])])

\* Rmdir
Rmdir(w, path) ==
  Let(resolvePath(path), LAMBDA r :
    IF r.err # "" THEN [err |-> r.err, w |-> w]
    ELSE Let(HostStat(w, r.full), LAMBDA st :
      IF st.errno # "" THEN [err |-> mapOSError("PathError", st.errno), w |-> w]
      ELSE IF w.ino[st.n].type # "dir" THEN [err |-> "ErrNotDir", w |-> w]
      ELSE IF Len(HostReadDir(w, r.full)) > 0 THEN [err |-> "ErrNotEmpty", w |-> w]
      \* rmdir(2) of the host's root directory fails with EBUSY
      ELSE IF r.full = <<SLASH>> THEN [err |-> mapOSError("PathError", "EBUSY"), w |-> w]
      ELSE [err |-> "", w |-> Reap([w EXCEPT !.tree = Drop(@, {r.full})])]))


\* entries whose cookies count from 1 on every page
DirEntries_FromOne(w, dir, names, cookie) ==
  [i \in 1..Len(names) |->
     [Name |-> names[i],
      FileId |-> w.tree[Join(dir, names[i])],
      Cookie |-> i]]

\* the entries of one page: name, file id and cookie = request cookie + index
DirEntries(w, dir, names, cookie) ==
  [i \in 1..Len(names) |->
     [Name |-> names[i],
      FileId |-> w.tree[Join(dir, names[i])],
      Cookie |-> cookie + i]]

\* a listing that starts over whatever the cookie
AfterCookie_Restart(all, cookie) == all

\* the listing from the cookie on: all of it when the cookie is not inside it
AfterCookie(all, cookie) ==
  IF cookie > 0 /\ cookie < Len(all) THEN SubSeq(all, cookie + 1, Len(all)) ELSE all

\* at most count entries (all of them when count is not positive)
FirstCount(rest, count) ==
  IF count > 0 /\ count < Len(rest) THEN SubSeq(rest, 1, count) ELSE rest

\* ReadDir: the sorted listing, cut at the cookie and then at count
ReadDir(w, dir, cookie, count) ==
  Let(resolvePath(dir), LAMBDA r :
    IF r.err # "" THEN [err |-> r.err, entries |-> <<>>, next |-> 0]
    ELSE Let(HostStat(w, r.full), LAMBDA st :
      IF st.errno # ""
      THEN [err |-> mapOSError("PathError", st.errno), entries |-> <<>>, next |-> 0]
      ELSE IF w.ino[st.n].type # "dir"
      THEN [err |-> "ErrNotDir", entries |-> <<>>, next |-> 0]
      ELSE Let(HostReadDir(w, r.full), LAMBDA all :
        IF cookie > 0 /\ ~(cookie < Len(all))
        THEN [err |-> "", entries |-> <<>>, next |-> Len(all)]
        ELSE Let(FirstCount(AfterCookie(all, cookie), count), LAMBDA page :
          [err |-> "", entries |-> DirEntries(w, r.full, page, cookie),
           next |-> cookie + Len(page)]))))

\* p with its prefix old replaced by new
Reprefix(p, old, new) == new \o SubSeq(p, Len(old) + 1, Len(p))

\* a rename that leaves the old names in place beside the new ones
Moved_Copied(w, old, new) ==
  Let({p \in DOMAIN w.tree : Under(p, old)}, LAMBDA moved :
    Let(DOMAIN w.tree \ {new}, LAMBDA kept :
      [p \in kept \cup {Reprefix(q, old, new) : q \in moved} |->
         IF p \in kept THEN w.tree[p] ELSE w.tree[Reprefix(p, new, old)]]))

\* the host tree after rename(2) moved old, and all below it, to new
Moved(w, old, new) ==
  Let({p \in DOMAIN w.tree : Under(p, old)}, LAMBDA moved :
    Let(DOMAIN w.tree \ (moved \cup {new}), LAMBDA kept :
      [p \in kept \cup {Reprefix(q, old, new) : q \in moved} |->
         IF p \in kept THEN w.tree[p] ELSE w.tree[Reprefix(p, new, old)]]))

\* os.Rename: Go refuses a directory as the new name (EEXIST) before calling
\* rename(2); rename(2) refuses to move a directory below itself (EINVAL) or
\* onto a file (ENOTDIR), does nothing when both names are links to one inode,
\* and otherwise moves the object (and all below it), replacing a file at the
\* new name
HostRename(w, old, new) ==
  IF new \in DOMAIN w.tree /\ w.ino[w.tree[new]].type = "dir"
  THEN [errno |-> "EEXIST", w |-> w]
  ELSE IF w.ino[w.tree[old]].type = "dir" /\ Under(new, old)
  THEN [errno |-> "EINVAL", w |-> w]
  ELSE IF w.ino[w.tree[old]].type = "dir" /\ new \in DOMAIN w.tree
  THEN [errno |-> "ENOTDIR", w |-> w]
  ELSE IF new \in DOMAIN w.tree /\ w.tree[new] = w.tree[old] THEN [errno |-> "", w |-> w]
  ELSE [errno |-> "", w |-> Reap([w EXCEPT !.tree = Moved(w, old, new)])]

\* Rename
Rename(w, oldPath, newPath) ==
  Let(resolvePath(oldPath), LAMBDA ro :
    IF ro.err # "" THEN [err |-> ro.err, w |-> w]
    ELSE Let(resolvePath(newPath), LAMBDA rn :
      IF rn.err # "" THEN [err |-> rn.err, w |-> w]
      ELSE Let(HostStat(w, ro.full), LAMBDA so :
        IF so.errno # "" THEN [err |-> mapOSError("PathError", so.errno), w |-> w]
        ELSE Let(HostStat(w, Dir(rn.full)), LAMBDA sp :
          IF sp.errno # "" THEN [err |-> mapOSError("PathError", sp.errno), w |-> w]
          ELSE IF w.ino[sp.n].type # "dir" THEN [err |-> "ErrNotDir", w |-> w]
          ELSE Let(HostRename(w, ro.full, rn.full), LAMBDA mv :
            IF mv.errno # "" THEN [err |-> mapOSError("LinkError", mv.errno), w |-> w]
            ELSE [err |-> "", w |-> mv.w])))))


\* ------------------------------------------------------------------ CRC-32
\* hash/crc32.ChecksumIEEE, computed bit by bit on 32-bit words kept as
\* sequences of 32 bits, least significant first.
CrcBits == 32

\* the reflected IEEE polynomial 0xEDB88320, least significant bit first
IEEEPoly ==
  <<0,0,0,0,0,1,0,0, 1,1,0,0,0,0,0,1, 0,0,0,1,1,1,0,1, 1,0,1,1,0,1,1,1>>

RECURSIVE XorBits(_, _)
XorBits(a, b) ==
  IF a = <<>> THEN <<>>
  ELSE <<(Head(a) + Head(b)) % 2>> \o XorBits(Tail(a), Tail(b))

Ones == [i \in 1..CrcBits |-> 1]

\* one input bit: shift right, and xor the polynomial in when a one falls out
CrcBit(crc, bit) ==
  LET shifted == Tail(crc) \o <<0>>
  IN IF (crc[1] + bit) % 2 = 1 THEN XorBits(shifted, IEEEPoly) ELSE shifted

RECURSIVE CrcByte(_, _, _)
CrcByte(crc, byte, k) ==
  IF k = 0 THEN crc
  ELSE Let(CrcBit(crc, byte % 2), LAMBDA next : CrcByte(next, byte \div 2, k - 1))

RECURSIVE CrcUpdate(_, _)
CrcUpdate(crc, data) ==
  IF data = <<>> THEN crc
  ELSE Let(CrcByte(crc, Head(data), 8), LAMBDA next : CrcUpdate(next, Tail(data)))

ChecksumIEEE(data) == XorBits(CrcUpdate(Ones, data), Ones)


\* ------------------------------------------------------------------ server
\* pkg/server/server.go and pkg/nfs

VARIABLES
  hostTree,          \* host path -> inode number, for every existing path
  hostIno,           \* inode number -> type, mode, owner, content
  inodeMap,          \* LocalFileSystem.inodeMap
  generationMap,     \* LocalFileSystem.generationMap
  reqCache,          \* NFSServer.reqCache: key -> stored response
  clock,             \* time.Now().UnixNano()
  enableRootSquash,  \* Config.EnableRootSquash
  last,              \* the latest call: operation, request, response, effects
  prev,              \* the call before it
  ops,               \* number of calls made so far
  chain,             \* a client enumerating a directory page by page
  workerPool,        \* NFSServer.workerPool: the number of slots taken
  calls              \* concurrent requests: where each is in processRequest

vars == <<hostTree, hostIno, inodeMap, generationMap, reqCache, clock,
          enableRootSquash, last, prev, ops, chain, workerPool, calls>>

\* the filesystem core's state as one record
World ==
  [tree |-> hostTree, ino |-> hostIno, inodeMap |-> inodeMap,
   generationMap |-> generationMap]

\* DefaultConfig: AnonUID, AnonGID
AnonUID == 65534

AnonGID == 65534

\* Config.MaxReadSize and Config.MaxWriteSize, scaled to the model's files
MaxReadSize == 2

MaxWriteSize == 4

\* the wire's unsigned offsets and cookies are OffsetBits wide (64 in the
\* program); int64(x) reads the same bits as a signed number
OffsetBits == 3

RECURSIVE Pow2(_)
Pow2(k) == IF k = 0 THEN 1 ELSE 2 * Pow2(k - 1)

ToInt64(u) == IF u >= Pow2(OffsetBits - 1) THEN u - Pow2(OffsetBits) ELSE u

\* MapErrorToStatus
MapErrorToStatus(err) ==
  CASE err = "" -> "OK"
    [] err = "ErrNotExist" -> "ERR_NOENT"
    [] err = "ErrPermission" -> "ERR_ACCES"
    [] err = "ErrExist" -> "ERR_EXIST"
    [] err = "ErrIO" -> "ERR_IO"
    [] err = "ErrIsDir" -> "ERR_ISDIR"
    [] err = "ErrNotDir" -> "ERR_NOTDIR"
    [] err = "ErrInvalidName" -> "ERR_INVAL"
    [] err = "ErrInvalidHandle" -> "ERR_BADHANDLE"
    [] err = "ErrNoSpace" -> "ERR_NOSPC"
    [] err = "ErrReadOnly" -> "ERR_ROFS"
    [] err = "ErrBadCookie" -> "ERR_BAD_COOKIE"
    [] err = "ErrStale" -> "ERR_STALE"
    [] err = "ErrNotSupported" -> "ERR_NOTSUPP"
    [] err = "ErrNotEmpty" -> "ERR_NOTEMPTY"
    [] OTHER -> "ERR_IO"

\* validateFileHandle
validateFileHandle(handle) ==
  IF Len(handle) < 16 THEN "ERR_BADHANDLE" ELSE "OK"

\* credentials passed on as they came, the squash left out
SquashCreds_Off(creds) == creds

\* the root squash every handler applies to the request's credentials
SquashCreds(creds) ==
  IF enableRootSquash /\ creds.UID = 0
  THEN [creds EXCEPT !.UID = AnonUID, !.GID = AnonGID]
  ELSE creds

\* FSInfoToProtoAttributes
FSInfoToProtoAttributes(info) == info

\* a handler that leaves the length check out and reports every handle it
\* cannot resolve as stale
Admit_Unvalidated(w, handle, creds, mode) ==
  Let(FileHandleToPath(w, handle), LAMBDA p :
    IF p.err # "" THEN [status |-> "ERR_STALE", path |-> <<>>, w |-> w]
    ELSE Let(Access(p.w, p.path, mode, SquashCreds(creds)), LAMBDA acc :
      [status |-> MapErrorToStatus(acc), path |-> p.path, w |-> p.w]))

\* the steps every handler starts with: validate the handle, resolve it,
\* squash the credentials, check access with the mode the handler needs
Admit(w, handle, creds, mode) ==
  IF validateFileHandle(handle) # "OK"
  THEN [status |-> "ERR_BADHANDLE", path |-> <<>>, w |-> w]
  ELSE Let(FileHandleToPath(w, handle), LAMBDA p :
    IF p.err # "" THEN [status |-> MapErrorToStatus(p.err), path |-> <<>>, w |-> w]
    ELSE Let(Access(p.w, p.path, mode, SquashCreds(creds)), LAMBDA acc :
      [status |-> MapErrorToStatus(acc), path |-> p.path, w |-> p.w]))

\* NFSServer.GetAttr
ServerGetAttr(w, req) ==
  Let(Admit(w, req.FileHandle, req.Credentials, 4), LAMBDA a :
    IF a.status # "OK"
    THEN [resp |-> [Status |-> a.status, Attributes |-> NoInfo], w |-> a.w]
    ELSE Let(GetAttr(a.w, a.path), LAMBDA g :
      IF g.err # ""
      THEN [resp |-> [Status |-> MapErrorToStatus(g.err), Attributes |-> NoInfo],
            w |-> g.w]
      ELSE [resp |-> [Status |-> "OK", Attributes |-> FSInfoToProtoAttributes(g.info)],
            w |-> g.w]))

\* a LookupResponse that carries only a status
LookupFail(st, w) ==
  [resp |-> [Status |-> st, FileHandle |-> <<>>, Attributes |-> NoInfo,
             DirAttributes |-> NoInfo],
   w |-> w]

\* the switch of NFSServer.Lookup on the name: ".", ".." or a name to look up
LookupTarget(w, dirPath, name) ==
  IF name = DOT THEN [err |-> "", path |-> dirPath, w |-> w]
  ELSE IF name = DOTDOT
  THEN [err |-> "", w |-> w,
        path |-> IF dirPath = <<SLASH>> THEN <<SLASH>>
                 ELSE IF Dir(dirPath) = DOT THEN <<SLASH>> ELSE Dir(dirPath)]
  ELSE Let(Lookup(w, dirPath, name), LAMBDA look :
         [err |-> look.err, path |-> look.path, w |-> look.w])

\* the optional directory attributes: read only when the target is not the
\* directory itself
LookupDirAttr(w, dirPath, targetPath) ==
  IF dirPath # targetPath THEN GetAttr(w, dirPath)
  ELSE [err |-> "none", info |-> NoInfo, w |-> w, host |-> FALSE]

\* NFSServer.Lookup
ServerLookup(w, req) ==
  Let(Admit(w, req.DirectoryHandle, req.Credentials, 5), LAMBDA a :
    IF a.status # "OK" THEN LookupFail(a.status, a.w)
    ELSE Let(LookupTarget(a.w, a.path, req.Name), LAMBDA t :
      IF t.err # "" THEN LookupFail(MapErrorToStatus(t.err), t.w)
      ELSE Let(GetAttr(t.w, t.path), LAMBDA g :
        IF g.err # "" THEN LookupFail(MapErrorToStatus(g.err), g.w)
        ELSE Let(LookupDirAttr(g.w, a.path, t.path), LAMBDA dg :
          Let(PathToFileHandle(dg.w, t.path), LAMBDA h :
            IF h.err # "" THEN LookupFail(MapErrorToStatus(h.err), h.w)
            ELSE [resp |-> [Status |-> "OK", FileHandle |-> h.fh,
                            Attributes |-> FSInfoToProtoAttributes(g.info),
                            DirAttributes |-> IF dg.err = ""
                                              THEN FSInfoToProtoAttributes(dg.info)
                                              ELSE NoInfo],
                  w |-> h.w])))))

\* a ReadResponse that carries only a status
ReadFail(st, w) ==
  [resp |-> [Status |-> st, Data |-> <<>>, Eof |-> FALSE, Attributes |-> NoInfo],
   w |-> w]

\* NFSServer.Read
ServerRead(w, req) ==
  Let(Admit(w, req.FileHandle, req.Credentials, 4), LAMBDA a :
    IF a.status # "OK" THEN ReadFail(a.status, a.w)
    ELSE Let(GetAttr(a.w, a.path), LAMBDA g :
      IF g.err # "" THEN ReadFail(MapErrorToStatus(g.err), g.w)
      ELSE IF g.info.Type # "reg" THEN ReadFail("ERR_ISDIR", g.w)
      ELSE Let(Read(g.w, a.path, ToInt64(req.Offset),
                    IF req.Count > MaxReadSize THEN MaxReadSize ELSE req.Count),
               LAMBDA rd :
        IF rd.err # "" THEN ReadFail(MapErrorToStatus(rd.err), g.w)
        ELSE Let(GetAttr(g.w, a.path), LAMBDA after :
          [resp |-> [Status |-> "OK", Data |-> rd.data, Eof |-> rd.eof,
                     Attributes |-> FSInfoToProtoAttributes(after.info)],
           w |-> after.w]))))


\* getCachedResponse that never finds an entry
getCachedResponse_Miss(cache, key) == [found |-> FALSE, resp |-> <<>>]

\* getCachedResponse
getCachedResponse(cache, key) ==
  IF key \in DOMAIN cache THEN [found |-> TRUE, resp |-> cache[key]]
  ELSE [found |-> FALSE, resp |-> <<>>]

\* cacheResponse that stores nothing
cacheResponse_Dropped(cache, key, response) == cache

\* cacheResponse: the entry is stored (its removal is the action CacheExpire)
cacheResponse(cache, key, response) == Put(cache, key, response)

\* the key "write-<handle>-<offset>-<crc32 of the data>"
WriteCacheKey(req) == <<"write", req.FileHandle, req.Offset, ChecksumIEEE(req.Data)>>

\* LocalFileSystem.Commit, which NFSServer.Write calls for DATA_SYNC: it
\* flushes the file and changes nothing the model observes
Commit(w, path) == ""

\* a failing WriteResponse that is also kept in the cache
WriteFail_Cached(st, w, cache) ==
  Let([Status |-> st, Count |-> 0, Stability |-> 0, Verifier |-> 0,
       Attributes |-> NoInfo], LAMBDA resp :
    [resp |-> resp, w |-> w, cache |-> Put(cache, <<"write", st>>, resp)])

\* a WriteResponse that carries only a status
WriteFail(st, w, cache) ==
  [resp |-> [Status |-> st, Count |-> 0, Stability |-> 0, Verifier |-> 0,
             Attributes |-> NoInfo],
   w |-> w, cache |-> cache]

\* a size limit that lets everything through
tooBig_Never(data) == FALSE

\* the size limit of NFSServer.Write
tooBig(data) == Len(data) > MaxWriteSize

\* a Write handler that consults the cache before anything else
ServerWrite_CacheFirst(w, cache, req) ==
  Let(getCachedResponse(cache, WriteCacheKey(req)), LAMBDA cached :
    IF cached.found THEN [resp |-> cached.resp, w |-> w, cache |-> cache]
    ELSE Let(Admit(w, req.FileHandle, req.Credentials, 2), LAMBDA a :
      IF a.status # "OK" THEN WriteFail(a.status, a.w, cache)
      ELSE Let(Write(a.w, a.path, ToInt64(req.Offset), req.Data, req.Stability = 2),
               LAMBDA wr :
        IF wr.err # "" THEN WriteFail(MapErrorToStatus(wr.err), wr.w, cache)
        ELSE Let([Status |-> "OK", Count |-> wr.n, Stability |-> req.Stability,
                  Verifier |-> clock, Attributes |-> NoInfo], LAMBDA resp :
          [resp |-> resp, w |-> wr.w,
           cache |-> cacheResponse(cache, WriteCacheKey(req), resp)]))))

\* NFSServer.Write
ServerWrite(w, cache, req) ==
  Let(Admit(w, req.FileHandle, req.Credentials, 2), LAMBDA a :
    IF a.status # "OK" THEN WriteFail(a.status, a.w, cache)
    ELSE Let(GetAttr(a.w, a.path), LAMBDA g :
      IF g.err # "" THEN WriteFail(MapErrorToStatus(g.err), g.w, cache)
      ELSE IF g.info.Type # "reg" THEN WriteFail("ERR_ISDIR", g.w, cache)
      ELSE IF tooBig(req.Data) THEN WriteFail("ERR_FBIG", g.w, cache)
      ELSE Let(WriteCacheKey(req), LAMBDA cacheKey :
        Let(getCachedResponse(cache, cacheKey), LAMBDA cached :
          IF cached.found THEN [resp |-> cached.resp, w |-> g.w, cache |-> cache]
          ELSE Let(Write(g.w, a.path, ToInt64(req.Offset), req.Data, req.Stability = 2),
                   LAMBDA wr :
            IF wr.err # "" THEN WriteFail(MapErrorToStatus(wr.err), wr.w, cache)
            ELSE Let(IF req.Stability = 1 THEN Commit(wr.w, a.path) ELSE "", LAMBDA cm :
              IF cm # "" THEN WriteFail(MapErrorToStatus(cm), wr.w, cache)
              ELSE Let(GetAttr(wr.w, a.path), LAMBDA after :
                Let([Status |-> "OK", Count |-> wr.n, Stability |-> req.Stability,
                     Verifier |-> clock,
                     Attributes |-> FSInfoToProtoAttributes(after.info)], LAMBDA resp :
                  [resp |-> resp, w |-> after.w,
                   cache |-> cacheResponse(cache, cacheKey, resp)]))))))))

\* the entries as the response carries them
ProtoEntries(entries) ==
  [i \in 1..Len(entries) |->
     [FileId |-> entries[i].FileId, Name |-> entries[i].Name,
      Cookie |-> entries[i].Cookie]]

\* a ReadDirResponse that carries only a status
ReadDirFail(st, w) ==
  [resp |-> [Status |-> st, CookieVerifier |-> 0, Entries |-> <<>>, Eof |-> FALSE],
   w |-> w]

\* an entry limit that is the count as the client sent it
maxCount_AsAsked(count) == count

\* the entry limit of NFSServer.ReadDir: 1000 by default, at most 10000
maxCount(count) ==
  IF count <= 0 THEN 1000 ELSE IF count > 10000 THEN 10000 ELSE count

\* NFSServer.ReadDir
ServerReadDir(w, req) ==
  Let(Admit(w, req.DirectoryHandle, req.Credentials, 4), LAMBDA a :
    IF a.status # "OK" THEN ReadDirFail(a.status, a.w)
    ELSE Let(GetAttr(a.w, a.path), LAMBDA g :
      IF g.err # "" THEN ReadDirFail(MapErrorToStatus(g.err), g.w)
      ELSE IF g.info.Type # "dir" THEN ReadDirFail("ERR_NOTDIR", g.w)
      ELSE Let(ReadDir(g.w, a.path, ToInt64(req.Cookie), maxCount(req.Count)),
               LAMBDA rd :
        IF rd.err # "" THEN ReadDirFail(MapErrorToStatus(rd.err), g.w)
        ELSE [resp |-> [Status |-> "OK", CookieVerifier |-> clock,
                        Entries |-> ProtoEntries(rd.entries),
                        Eof |-> (Len(rd.entries) < maxCount(req.Count))],
              w |-> g.w])))

\* the key of an exclusive create: directory handle, name, verifier
CreateCacheKey(req) == <<"create", req.DirectoryHandle, req.Name, req.Verifier>>

\* a CreateResponse that carries only a status
CreateFail(st, w, cache) ==
  [resp |-> [Status |-> st, FileHandle |-> <<>>, Attributes |-> NoInfo,
             DirAttributes |-> NoInfo],
   w |-> w, cache |-> cache]

\* NFSServer.Create. Mode is UNCHECKED, GUARDED or EXCLUSIVE; GUARDED and
\* EXCLUSIVE refuse an existing name, and an EXCLUSIVE create is answered from
\* the idempotency cache when its (directory, name, verifier) is replayed.
ServerCreate(w, cache, req, fresh) ==
  Let(Admit(w, req.DirectoryHandle, req.Credentials, 2), LAMBDA a :
    IF a.status # "OK" THEN CreateFail(a.status, a.w, cache)
    ELSE Let(getCachedResponse(cache, CreateCacheKey(req)), LAMBDA cached :
      IF req.Mode = "EXCLUSIVE" /\ cached.found
      THEN [resp |-> cached.resp, w |-> a.w, cache |-> cache]
      ELSE Let(Create(a.w, a.path, req.Name, req.AttrMode, req.Mode # "UNCHECKED", fresh),
               LAMBDA cr :
        IF cr.err # "" THEN CreateFail(MapErrorToStatus(cr.err), a.w, cache)
        ELSE Let(PathToFileHandle(cr.w, cr.path), LAMBDA h :
          IF h.err # "" THEN CreateFail(MapErrorToStatus(h.err), cr.w, cache)
          ELSE Let(GetAttr(h.w, a.path), LAMBDA dg :
            Let([Status |-> "OK", FileHandle |-> h.fh,
                 Attributes |-> FSInfoToProtoAttributes(cr.info),
                 DirAttributes |-> IF dg.err = "" THEN FSInfoToProtoAttributes(dg.info)
                                   ELSE NoInfo], LAMBDA resp :
              [resp |-> resp, w |-> dg.w,
               cache |-> IF req.Mode = "EXCLUSIVE"
                         THEN cacheResponse(cache, CreateCacheKey(req), resp)
                         ELSE cache]))))))

\* a MkdirResponse that carries only a status
MkdirFail(st, w) ==
  [resp |-> [Status |-> st, DirectoryHandle |-> <<>>, Attributes |-> NoInfo,
             DirAttributes |-> NoInfo],
   w |-> w]

\* NFSServer.Mkdir
ServerMkdir(w, req, fresh) ==
  Let(Admit(w, req.DirectoryHandle, req.Credentials, 2), LAMBDA a :
    IF a.status # "OK" THEN MkdirFail(a.status, a.w)
    ELSE Let(Mkdir(a.w, a.path, req.Name, req.AttrMode, fresh), LAMBDA mk :
      IF mk.err # "" THEN MkdirFail(MapErrorToStatus(mk.err), a.w)
      ELSE Let(PathToFileHandle(mk.w, mk.path), LAMBDA h :
        IF h.err # "" THEN MkdirFail(MapErrorToStatus(h.err), mk.w)
        ELSE Let(GetAttr(h.w, a.path), LAMBDA dg :
          [resp |-> [Status |-> "OK", DirectoryHandle |-> h.fh,
                     Attributes |-> FSInfoToProtoAttributes(mk.info),
                     DirAttributes |-> IF dg.err = "" THEN FSInfoToProtoAttributes(dg.info)
                                       ELSE NoInfo],
           w |-> dg.w]))))


\* ------------------------------------------------------------------ the system
\* The export /e holds a file a (owner 1000, 0644, two bytes), a file s
\* (owner root, 0600, one byte) and a directory d; /e2 is a directory of the
\* host beside the export.
P_slash == <<"/">>

P_a == <<"/", "a">>

P_s == <<"/", "s">>

P_d == <<"/", "d">>

P_x == <<"/", "x">>

InitTree ==
  (<<"/">> :> 1) @@ (rootPath :> 2) @@ (<<"/", "e", "/", "a">> :> 3)
  @@ (<<"/", "e", "/", "s">> :> 4) @@ (<<"/", "e", "/", "d">> :> 5)
  @@ (<<"/", "e", "2">> :> 6)

InitIno ==
  (1 :> [type |-> "dir", mode |-> 493, uid |-> 0, gid |-> 0, data |-> <<>>])
  @@ (2 :> [type |-> "dir", mode |-> 493, uid |-> 1000, gid |-> 1000, data |-> <<>>])
  @@ (3 :> [type |-> "reg", mode |-> 420, uid |-> 1000, gid |-> 1000, data |-> <<1, 2>>])
  @@ (4 :> [type |-> "reg", mode |-> 384, uid |-> 0, gid |-> 0, data |-> <<2>>])
  @@ (5 :> [type |-> "dir", mode |-> 493, uid |-> 1000, gid |-> 1000, data |-> <<>>])
  @@ (6 :> [type |-> "dir", mode |-> 493, uid |-> 0, gid |-> 0, data |-> <<>>])

Empty == [x \in {} |-> 0]

NoCall == [op |-> "none", req |-> <<>>, resp |-> <<>>, before |-> InitTree,
           fsChanged |-> FALSE, indexChanged |-> FALSE, cacheChanged |-> FALSE]

NoChain == [active |-> FALSE]

Init ==
  /\ hostTree = InitTree
  /\ hostIno = InitIno
  /\ inodeMap = Empty
  /\ generationMap = Empty
  /\ reqCache = Empty
  /\ clock = 0
  /\ enableRootSquash \in BOOLEAN
  /\ last = NoCall
  /\ prev = NoCall
  /\ ops = 0
  /\ chain = NoChain
  /\ workerPool = 0
  /\ calls = <<>>

\* the request's credentials
RootCreds == [UID |-> 0, GID |-> 0, Groups |-> {0}]

UserCreds == [UID |-> 1000, GID |-> 1000, Groups |-> {1000}]

Creds == {RootCreds, UserCreds}

\* a well-formed handle of this export for inode n, and a malformed one
HandleOf(n) == Serialize([FileSystemID |-> fsID, Inode |-> n, Generation |-> 1])

ShortHandle == <<1, 2, 3>>

\* inode numbers the host may give a new object
FreshInodes == (1..MaxInode) \ DOMAIN hostIno

\* every path an operation leaves on the host is within the model's length bound
Bounded(w) ==
  /\ \A p \in DOMAIN w.tree : Len(p) <= MaxPathLen
  /\ \A n \in DOMAIN w.ino : Len(w.ino[n].data) <= MaxFileLen

\* what a call leaves behind: the world w, the cache c, and its record
\* (before is the host tree the call found)
Effects(op, req, resp, w, c) ==
  /\ Bounded(w)
  /\ hostTree' = w.tree
  /\ hostIno' = w.ino
  /\ inodeMap' = w.inodeMap
  /\ generationMap' = w.generationMap
  /\ reqCache' = c
  /\ last' = [op |-> op, req |-> req, resp |-> resp, before |-> hostTree,
              fsChanged |-> (w.tree # hostTree \/ w.ino # hostIno),
              indexChanged |-> (w.inodeMap # inodeMap \/ w.generationMap # generationMap),
              cacheChanged |-> (c # reqCache)]
  /\ prev' = last
  /\ UNCHANGED <<clock, enableRootSquash>>

\* the state after one of the calls the model counts
Finish(op, req, resp, w, c) ==
  /\ ops < MaxOps
  /\ Effects(op, req, resp, w, c)
  /\ ops' = ops + 1
  /\ UNCHANGED <<chain, workerPool, calls>>

\* a call of the filesystem core returned r: its fields but the world are the
\* results the caller sees
FsReturn(op, req, r) ==
  Finish(op, req, [k \in DOMAIN r \ {"w"} |-> r[k]], r.w, reqCache)

\* a handler returned r: a response and the world, and the cache when the
\* handler uses it
Reply(op, req, r) ==
  Finish(op, req, r.resp, r.w, IF "cache" \in DOMAIN r THEN r.cache ELSE reqCache)


\* ---- calls of the LocalFileSystem API (as the tests and the server make them)
FsPaths ==
  {P_slash, P_a, <<"a">>, P_s, P_d, P_x, <<"/", ".", ".", "/", "e", "2">>,
   <<"/", ".", ".", "/", "x">>}

FsResolve(q) == FsReturn("fs.GetAttr", [path |-> q], GetAttr(World, q))

FsPathToFileHandle(p) ==
  FsReturn("fs.PathToFileHandle", [path |-> p], PathToFileHandle(World, p))

FsFileHandleToPath(fh) ==
  FsReturn("fs.FileHandleToPath", [fh |-> fh], FileHandleToPath(World, fh))

FsRename(old, new) ==
  FsReturn("fs.Rename", [old |-> old, new |-> new], Rename(World, old, new))

FsRemove(p) == FsReturn("fs.Remove", [path |-> p], Remove(World, p))

FsRmdir(p) == FsReturn("fs.Rmdir", [path |-> p], Rmdir(World, p))

FsCreate(dir, name, fresh) ==
  FsReturn("fs.Create", [dir |-> dir, name |-> name],
           Create(World, dir, name, -1, FALSE, fresh))

FsMkdir(dir, name, fresh) ==
  FsReturn("fs.Mkdir", [dir |-> dir, name |-> name], Mkdir(World, dir, name, -1, fresh))

\* ---- requests to the server
WireNames == {<<"a">>, <<"x">>, DOT, DOTDOT, <<".", ".", "/", "x">>}

DoGetAttr(req) == Reply("GetAttr", req, ServerGetAttr(World, req))

DoLookup(req) == Reply("Lookup", req, ServerLookup(World, req))

DoRead(req) == Reply("Read", req, ServerRead(World, req))

DoWrite(req) == Reply("Write", req, ServerWrite(World, reqCache, req))

DoReadDir(req) == Reply("ReadDir", req, ServerReadDir(World, req))

DoCreate(req, fresh) == Reply("Create", req, ServerCreate(World, reqCache, req, fresh))

DoMkdir(req, fresh) == Reply("Mkdir", req, ServerMkdir(World, req, fresh))

\* ---- the environment
\* time passes
Tick ==
  /\ clock < MaxClock
  /\ clock' = clock + 1
  /\ UNCHANGED <<hostTree, hostIno, inodeMap, generationMap, reqCache,
                 enableRootSquash, last, prev, ops, chain, workerPool, calls>>

\* the time.AfterFunc of cacheResponse fires: delete(s.reqCache, key)
CacheExpire(key) ==
  /\ key \in DOMAIN reqCache
  /\ reqCache' = Drop(reqCache, {key})
  /\ last' = [NoCall EXCEPT !.op = "CacheExpire", !.req = key, !.before = hostTree,
                            !.cacheChanged = TRUE]
  /\ prev' = last
  /\ UNCHANGED <<hostTree, hostIno, inodeMap, generationMap, clock,
                 enableRootSquash, ops, chain, workerPool, calls>>

\* another process of the host deletes the file at host path full, behind
\* the server's back
HostUnlink(full) ==
  /\ full \in DOMAIN hostTree
  /\ hostIno[hostTree[full]].type = "reg"
  /\ hostTree' = Drop(hostTree, {full})
  /\ hostIno' = Reap([World EXCEPT !.tree = Drop(@, {full})]).ino
  /\ last' = [NoCall EXCEPT !.op = "host.unlink", !.req = full, !.before = hostTree,
                            !.fsChanged = TRUE]
  /\ prev' = last
  /\ UNCHANGED <<inodeMap, generationMap, reqCache, clock, enableRootSquash, ops,
                 chain, workerPool, calls>>

WireOffsets == 0..(Pow2(OffsetBits) - 1)

\* the handles of the export root, of a, s and d, and of a new object
H_root == HandleOf(2)

H_a == HandleOf(3)

H_s == HandleOf(4)

H_d == HandleOf(5)

H_new == HandleOf(7)

\* handles of the file a from another epoch and from another filesystem
H_a_gen2 == Serialize([FileSystemID |-> fsID, Inode |-> 3, Generation |-> 2])

H_a_fs2 == Serialize([FileSystemID |-> U32(1), Inode |-> 3, Generation |-> 1])

\* the requests of the model: those on the file a in full, the others once
ReadRequest(t) ==
  [FileHandle |-> t[1], Offset |-> t[2], Count |-> t[3], Credentials |-> t[4]]

ReadInputs ==
  {ReadRequest(t) : t \in
     ({H_a} \X WireOffsets \X {0, 1, 3} \X {UserCreds})
     \cup ({H_a, H_s} \X {0} \X {1} \X {RootCreds})
     \cup ({H_d, ShortHandle} \X {0} \X {1} \X {UserCreds})}

\* four bytes whose CRC-32 is 0, the CRC-32 of no bytes
ZeroCrc == <<157, 10, 217, 109>>

WriteRequest(t) ==
  [FileHandle |-> t[1], Offset |-> t[2], Data |-> t[3], Stability |-> t[4],
   Credentials |-> t[5]]

WriteInputs ==
  {WriteRequest(t) : t \in
     ({H_a} \X {0, 1} \X {<<1>>, <<2, 2>>} \X {0, 1, 2} \X {UserCreds})
     \cup ({H_a} \X {0, Pow2(OffsetBits) - 1} \X {<<>>, <<1, 1, 1, 1, 1>>} \X {0} \X {UserCreds})
     \cup ({H_a} \X {0} \X {ZeroCrc} \X {0} \X {UserCreds})
     \cup ({H_a, H_s} \X {0} \X {<<1>>} \X {2} \X {RootCreds})
     \cup ({H_d, ShortHandle, H_new} \X {0} \X {<<1>>} \X {0} \X {UserCreds})}

ReadDirRequest(t) ==
  [DirectoryHandle |-> t[1], Cookie |-> t[2], CookieVerifier |-> 0, Count |-> t[3],
   Credentials |-> t[4]]

ReadDirInputs ==
  {ReadDirRequest(t) : t \in
     ({H_root} \X {0, 1, 3} \X {0, 1, 2} \X {UserCreds})
     \cup ({H_root} \X {0} \X {10001} \X {UserCreds})
     \cup ({H_root, H_s} \X {0} \X {0} \X {RootCreds})
     \cup ({H_a, ShortHandle} \X {0} \X {0} \X {UserCreds})}

CreateRequest(t) ==
  [DirectoryHandle |-> t[1], Name |-> t[2], AttrMode |-> 420, Mode |-> t[3],
   Verifier |-> t[4], Credentials |-> t[5]]

CreateInputs ==
  {CreateRequest(t) : t \in
     ({H_root} \X {<<"a">>, <<"x">>, <<".", ".", "/", "x">>}
        \X {"UNCHECKED", "GUARDED", "EXCLUSIVE"} \X {1} \X {UserCreds})
     \cup ({H_root} \X {<<"x">>} \X {"EXCLUSIVE"} \X {2} \X {UserCreds})
     \cup ({H_root} \X {<<"x">>} \X {"GUARDED"} \X {1} \X {RootCreds})
     \cup ({H_a, ShortHandle} \X {<<"x">>} \X {"EXCLUSIVE"} \X {1} \X {UserCreds})}

MkdirRequest(t) ==
  [DirectoryHandle |-> t[1], Name |-> t[2], AttrMode |-> -1, Credentials |-> t[3]]

MkdirInputs ==
  {MkdirRequest(t) : t \in
     ({H_root} \X {<<"a">>, <<"x">>, <<".", ".", "/", "x">>} \X {UserCreds})
     \cup ({H_root, ShortHandle} \X {<<"x">>} \X {RootCreds})}

LookupRequest(t) == [DirectoryHandle |-> t[1], Name |-> t[2], Credentials |-> t[3]]

LookupInputs ==
  {LookupRequest(t) : t \in
     ({H_root} \X WireNames \X {UserCreds})
     \cup ({H_root, H_a, H_s, ShortHandle} \X {<<"a">>} \X {RootCreds})
     \cup ({H_d} \X {DOTDOT, <<".", ".", "/", "a">>} \X {UserCreds})}

GetAttrRequest(t) == [FileHandle |-> t[1], Credentials |-> t[2]]

GetAttrInputs ==
  {GetAttrRequest(t) : t \in
     ({H_root, H_a, H_s, H_new, ShortHandle, H_a_gen2, H_a_fs2} \X {UserCreds})
     \cup ({H_a, H_s} \X {RootCreds})}

Next ==
  \/ \E q \in FsPaths : FsResolve(q)
  \/ \E p \in FsPaths \ {P_d} : FsPathToFileHandle(p)
  \/ \E h \in {H_a, H_d, H_new, H_a_gen2, H_a_fs2} : FsFileHandleToPath(h)
  \/ \E old \in {P_a, P_d}, new \in {P_a, P_s, P_x} : FsRename(old, new)
  \/ \E p \in {P_a, P_d} : FsRemove(p)
  \/ \E p \in {P_a, P_d, P_slash} : FsRmdir(p)
  \/ \E name \in {<<"x">>, <<".", ".", "/", "x">>}, fresh \in FreshInodes :
       FsCreate(P_slash, name, fresh)
  \/ \E name \in {<<"x">>, <<".", ".", "/", "x">>}, fresh \in FreshInodes :
       FsMkdir(P_slash, name, fresh)
  \/ \E req \in GetAttrInputs : DoGetAttr(req)
  \/ \E req \in LookupInputs : DoLookup(req)
  \/ \E req \in ReadInputs : DoRead(req)
  \/ \E req \in WriteInputs : DoWrite(req)
  \/ \E req \in ReadDirInputs : DoReadDir(req)
  \/ \E req \in CreateInputs, fresh \in FreshInodes : DoCreate(req, fresh)
  \/ \E req \in MkdirInputs, fresh \in FreshInodes : DoMkdir(req, fresh)
  \/ Tick
  \/ \E key \in DOMAIN reqCache : CacheExpire(key)
  \/ HostUnlink(resolvePath(P_a).full)

Spec == Init /\ [][Next]_vars

\* ---- a client enumerating the export's root directory
\* The directory holds any of a, s and d and stays as it is; the client asks
\* for pages of count entries, starting at cookie 0 and passing each time the
\* cookie of the last entry it received, until a page says eof.
DirContents == SUBSET {P_a, P_s, P_d}

\* the host tree in which the export holds only the paths of keep
TreeWith(keep) ==
  [p \in {q \in DOMAIN InitTree :
            \/ ~Under(q, rootPath) \/ q = rootPath
            \/ \E k \in keep : resolvePath(k).full = q} |-> InitTree[p]]

PageCounts == {0, 1, 2, 3}

InitChain ==
  /\ \E keep \in DirContents : hostTree = TreeWith(keep)
  /\ hostIno = InitIno
  /\ inodeMap = Empty
  /\ generationMap = Empty
  /\ reqCache = Empty
  /\ clock = 0
  /\ enableRootSquash \in BOOLEAN
  /\ last = NoCall
  /\ prev = NoCall
  /\ ops = 0
  /\ workerPool = 0
  /\ calls = <<>>
  /\ \E count \in PageCounts, creds \in Creds :
       chain = [active |-> TRUE, count |-> count, creds |-> creds, cookie |-> 0,
                seen |-> <<>>, pages |-> 0, status |-> "OK", eof |-> FALSE]

\* the request for the next page
ChainRequest ==
  ReadDirRequest(<<H_root, chain.cookie, chain.count, chain.creds>>)

\* the client's notes after the response resp
Noted(resp) ==
  [chain EXCEPT
     !.seen = @ \o [i \in 1..Len(resp.Entries) |-> resp.Entries[i].Name],
     !.cookie = IF Len(resp.Entries) > 0
                THEN resp.Entries[Len(resp.Entries)].Cookie ELSE @,
     !.pages = @ + 1,
     !.status = resp.Status,
     !.eof = resp.Eof]

\* the handler answered the client's request req with r
ChainPage(req, r) ==
  /\ Effects("ReadDir", req, r.resp, r.w, reqCache)
  /\ chain' = Noted(r.resp)
  /\ UNCHANGED <<ops, workerPool, calls>>

\* the client asks for the next page
ChainStep ==
  /\ chain.active /\ chain.status = "OK" /\ ~chain.eof
  /\ \E r \in {ServerReadDir(World, ChainRequest)} : ChainPage(ChainRequest, r)

NextChain ==
  \/ ChainStep
  \/ Tick

\* the client goes on asking while it has not seen eof
SpecChain == InitChain /\ [][NextChain]_vars /\ WF_vars(ChainStep)

\* ---- requests in flight at once
\* Each request runs processRequest in its own goroutine: it waits in
\* acquireWorker for a slot of workerPool or for its context to end, runs its
\* handler (here, taken as one step), and gives the slot back on return.
Requests == 1..NumRequests

\* a send on the channel workerPool that takes everything
hasRoom_Always(pool) == TRUE

\* a send on the buffered channel workerPool can proceed
hasRoom(pool) == pool < MaxConcurrent

NoResult == [kind |-> "none", status |-> ""]

InitPool ==
  /\ hostTree = InitTree
  /\ hostIno = InitIno
  /\ inodeMap = Empty
  /\ generationMap = Empty
  /\ reqCache = Empty
  /\ clock = 0
  /\ enableRootSquash \in BOOLEAN
  /\ last = NoCall
  /\ prev = NoCall
  /\ ops = 0
  /\ chain = NoChain
  /\ workerPool = 0
  /\ calls = [r \in Requests |->
               [pc |-> "idle", ctxDone |-> FALSE, released |-> 0, waited |-> 0,
                result |-> NoResult]]

Quiet ==
  UNCHANGED <<hostTree, hostIno, inodeMap, generationMap, reqCache, clock,
              enableRootSquash, last, prev, ops, chain>>

\* the RPC arrives: processRequest starts and reaches acquireWorker
Arrive(r) ==
  /\ calls[r].pc = "idle"
  /\ calls' = [calls EXCEPT ![r].pc = "acquire"]
  /\ UNCHANGED workerPool
  /\ Quiet

\* the request's context ends (the client gave up or its deadline passed)
CtxDone(r) ==
  /\ calls[r].pc \in {"acquire", "process"}
  /\ ~calls[r].ctxDone
  /\ calls' = [calls EXCEPT ![r].ctxDone = TRUE]
  /\ UNCHANGED workerPool
  /\ Quiet

\* acquireWorker, case s.workerPool <- struct{}{}: the slot is taken and the
\* release is deferred
AcquireSlot(r) ==
  /\ calls[r].pc = "acquire"
  /\ hasRoom(workerPool)
  /\ workerPool' = workerPool + 1
  /\ calls' = [calls EXCEPT ![r].pc = "process"]
  /\ Quiet

\* acquireWorker, case <-ctx.Done(): processRequest returns (nil, ctx.Err())
AcquireFail(r) ==
  /\ calls[r].pc = "acquire"
  /\ calls[r].ctxDone
  /\ calls' = [calls EXCEPT ![r].pc = "returned",
                             ![r].result = [kind |-> "error", status |-> ""]]
  /\ UNCHANGED workerPool
  /\ Quiet

\* the request is blocked in the select of acquireWorker: the pool is full
\* and its context has not ended
Blocked(r) ==
  calls[r].pc = "acquire" /\ ~hasRoom(workerPool) /\ ~calls[r].ctxDone

\* a unit of time goes by while requests are blocked in acquireWorker (the
\* count stops one past request_timeout)
TimePasses ==
  /\ \E r \in Requests : Blocked(r) /\ calls[r].waited <= RequestTimeout
  /\ calls' = [r \in Requests |->
                IF Blocked(r) /\ calls[r].waited <= RequestTimeout
                THEN [calls[r] EXCEPT !.waited = @ + 1]
                ELSE calls[r]]
  /\ UNCHANGED workerPool
  /\ Quiet

PoolInputs ==
  {GetAttrRequest(t) : t \in {H_a, H_new, ShortHandle} \X {UserCreds}}

\* process(): the handler runs and returns its response
Process(r, req) ==
  /\ calls[r].pc = "process"
  /\ \E res \in {ServerGetAttr(World, req)} :
       /\ Effects("GetAttr", req, res.resp, res.w, reqCache)
       /\ calls' = [calls EXCEPT ![r].pc = "release",
                                  ![r].result = [kind |-> "response",
                                                 status |-> res.resp.Status]]
  /\ UNCHANGED <<ops, chain, workerPool>>

\* the deferred releaseWorker: <-s.workerPool, and processRequest returns
ReleaseSlot(r) ==
  /\ calls[r].pc = "release"
  /\ workerPool > 0
  /\ workerPool' = workerPool - 1
  /\ calls' = [calls EXCEPT ![r].pc = "returned", ![r].released = @ + 1]
  /\ Quiet

NextPool ==
  \/ \E r \in Requests : Arrive(r)
  \/ \E r \in Requests : CtxDone(r)
  \/ \E r \in Requests : AcquireSlot(r)
  \/ \E r \in Requests : AcquireFail(r)
  \/ \E r \in Requests, req \in PoolInputs : Process(r, req)
  \/ \E r \in Requests : ReleaseSlot(r)
  \/ TimePasses

SpecPool == InitPool /\ [][NextPool]_vars

\* ---- calls of Access on a file of any ownership and permission bits
\* The file a gets permission bits and an owner out of small sets; callers of
\* every class ask for every combination of rwx.
AccessModes == {0, 7, 32, 52, 256, 273, 416, 420, 448, 511}

AccessOwners == {0, 1000}

\* the owner of a, a member of its group by gid, a member by a supplementary
\* group, a stranger, and uid 0
AccessCreds ==
  {UserCreds,
   [UID |-> 2000, GID |-> 1000, Groups |-> {}],
   [UID |-> 2000, GID |-> 3000, Groups |-> {3000, 1000}],
   [UID |-> 2000, GID |-> 3000, Groups |-> {3000}],
   RootCreds}

\* the modes a caller asks for: every rwx combination, and one with a higher bit
RequiredModes == (0..7) \cup {12}

InitAccess ==
  /\ hostTree = InitTree
  /\ \E m \in AccessModes, u \in AccessOwners :
       hostIno = [InitIno EXCEPT ![3].mode = m, ![3].uid = u]
  /\ inodeMap = Empty
  /\ generationMap = Empty
  /\ reqCache = Empty
  /\ clock = 0
  /\ enableRootSquash = FALSE
  /\ last = NoCall
  /\ prev = NoCall
  /\ ops = 0
  /\ chain = NoChain
  /\ workerPool = 0
  /\ calls = <<>>

FsAccess(p, mode, creds) ==
  FsReturn("fs.Access", [path |-> p, mode |-> mode, creds |-> creds],
           [err |-> Access(World, p, mode, creds), w |-> World])

NextAccess ==
  \E p \in {P_a, P_x}, mode \in RequiredModes, creds \in AccessCreds :
    FsAccess(p, mode, creds)

SpecAccess == InitAccess /\ [][NextAccess]_vars


\* ---- calls of SetAttr on a file and a directory with times of their own
\* Inodes carry an access and a modification time here; an attribute a request
\* leaves out is Nil.
Nil == -1

TimeValues == {1, 2}

\* ProtoAttributesToFSAttr: a field of the message is taken as present only
\* when it is not the zero value (a time: not missing and not zero)
ProtoAttributesToFSAttr(attr) ==
  [Mode |-> IF attr.Mode # 0 THEN attr.Mode ELSE Nil,
   Size |-> IF attr.Size # 0 THEN attr.Size ELSE Nil,
   Uid |-> IF attr.Uid # 0 THEN attr.Uid ELSE Nil,
   Gid |-> IF attr.Gid # 0 THEN attr.Gid ELSE Nil,
   AccessTime |-> IF attr.Atime # Nil /\ attr.Atime # 0 THEN attr.Atime ELSE Nil,
   ModifyTime |-> IF attr.Mtime # Nil /\ attr.Mtime # 0 THEN attr.Mtime ELSE Nil]

\* chmod(2) through os.Chmod: the permission bits of the mode
HostChmod(w, n, mode) == [w EXCEPT !.ino[n].mode = mode % 512]

\* chown(2) by the server's user, uid 0
HostChown(w, n, uid, gid) == [w EXCEPT !.ino[n].uid = uid, !.ino[n].gid = gid]

\* truncate(2): EISDIR on a directory; the data cut or padded with zeros, and
\* the modification time stamped when the size changed
HostTruncate(w, n, size, now) ==
  IF w.ino[n].type = "dir" THEN [errno |-> "EISDIR", w |-> w]
  ELSE Let(w.ino[n].data, LAMBDA old :
    [errno |-> "",
     w |-> [w EXCEPT !.ino[n].data = IF size <= Len(old) THEN SubSeq(old, 1, size)
                                     ELSE old \o Zeros(size - Len(old)),
                     !.ino[n].mtime = IF size # Len(old) THEN now ELSE @]])

\* utimes(2) through os.Chtimes
HostChtimes(w, n, atime, mtime) ==
  [w EXCEPT !.ino[n].atime = atime, !.ino[n].mtime = mtime]

\* SetAttr: the four optional changes in the order of the code, each on the
\* world the one before left, the first failure ending the call; fileInfo is
\* the stat taken before any change, and the time a request leaves out is
\* replaced by fileInfo.ModTime(), the access time too
SetAttr(w, path, attr, now) ==
  Let(resolvePath(path), LAMBDA r :
    IF r.err # "" THEN [err |-> r.err, info |-> NoInfo, w |-> w]
    ELSE Let(HostStat(w, r.full), LAMBDA st :
      IF st.errno # ""
      THEN [err |-> mapOSError("PathError", st.errno), info |-> NoInfo, w |-> w]
      ELSE
        Let(w.ino[st.n], LAMBDA fileInfo :
        Let(IF attr.Mode # Nil THEN HostChmod(w, st.n, attr.Mode) ELSE w, LAMBDA w1 :
        Let(IF attr.Uid # Nil \/ attr.Gid # Nil
            THEN HostChown(w1, st.n,
                           IF attr.Uid # Nil THEN attr.Uid ELSE fileInfo.uid,
                           IF attr.Gid # Nil THEN attr.Gid ELSE fileInfo.gid)
            ELSE w1, LAMBDA w2 :
        Let(IF attr.Size # Nil THEN HostTruncate(w2, st.n, attr.Size, now)
            ELSE [errno |-> "", w |-> w2], LAMBDA cut :
          IF cut.errno # ""
          THEN [err |-> mapOSError("PathError", cut.errno), info |-> NoInfo,
                w |-> cut.w]
          ELSE
            Let(IF attr.AccessTime # Nil \/ attr.ModifyTime # Nil
                THEN HostChtimes(cut.w, st.n,
                                 IF attr.AccessTime # Nil THEN attr.AccessTime
                                 ELSE fileInfo.mtime,
                                 IF attr.ModifyTime # Nil THEN attr.ModifyTime
                                 ELSE fileInfo.mtime)
                ELSE cut.w, LAMBDA w4 :
            Let(convertFileInfo(w4, path, st.n), LAMBDA c :
              [err |-> "", info |-> c.info, w |-> c.w]))))))))

\* the messages a client sends: each field zero or set, a time also missing
ProtoAttrs ==
  [Mode : {0, 384}, Size : {0, 1}, Uid : {0, 2000}, Gid : {0, 2000},
   Atime : {Nil, 2}, Mtime : {Nil, 0, 2}]

InitSetAttr ==
  /\ hostTree = InitTree
  /\ \E at \in TimeValues, mt \in TimeValues :
       hostIno = [n \in DOMAIN InitIno |->
                    InitIno[n] @@ [atime |-> at, mtime |-> mt]]
  /\ inodeMap = Empty
  /\ generationMap = Empty
  /\ reqCache = Empty
  /\ clock = 0
  /\ enableRootSquash = FALSE
  /\ last = NoCall
  /\ prev = NoCall
  /\ ops = 0
  /\ chain = NoChain
  /\ workerPool = 0
  /\ calls = <<>>

\* the host's clock is past every time a file or a request carries
FsSetAttr(p, attr) ==
  FsReturn("fs.SetAttr", [path |-> p, attr |-> attr],
           SetAttr(World, p, attr, clock + 3))

NextSetAttr ==
  \E p \in {P_a, P_d}, pa \in ProtoAttrs : FsSetAttr(p, ProtoAttributesToFSAttr(pa))

SpecSetAttr == InitSetAttr /\ [][NextSetAttr]_vars


\* ---- host failures passing through both error mappers
\* A host call of the filesystem core failed with an errno, wrapped as the os
\* package wraps it; the core's mapOSError and then MapErrorToStatus turn it
\* into the status of the response.
HostErrnos ==
  {"EPERM", "ENOENT", "EIO", "EACCES", "EEXIST", "ENOTDIR", "EISDIR", "EINVAL",
   "EFBIG", "ENOSPC", "EROFS", "ENAMETOOLONG", "ENOTEMPTY", "EBUSY", "EXDEV",
   "EMFILE"}

ErrorKinds == {"PathError", "LinkError"}

InitErrors ==
  /\ hostTree = InitTree
  /\ hostIno = InitIno
  /\ inodeMap = Empty
  /\ generationMap = Empty
  /\ reqCache = Empty
  /\ clock = 0
  /\ enableRootSquash = FALSE
  /\ last = NoCall
  /\ prev = NoCall
  /\ ops = 0
  /\ chain = NoChain
  /\ workerPool = 0
  /\ calls = <<>>

\* a handler's "Status: nfs.MapErrorToStatus(err)" on the error the core
\* returned for a failed host call
HostFailure(kind, errno) ==
  FsReturn("HostFailure", [kind |-> kind, errno |-> errno],
           [Status |-> MapErrorToStatus(mapOSError(kind, errno)), w |-> World])

NextErrors == \E kind \in ErrorKinds, errno \in HostErrnos : HostFailure(kind, errno)

SpecErrors == InitErrors /\ [][NextErrors]_vars


\* ---- Write requests handled at once
\* Each request runs NFSServer.Write in a goroutine of its own. The handler
\* takes the cache's lock twice, in getCachedResponse and in cacheResponse, and
\* holds it across neither the checks before nor the write between: the steps
\* of a request are the part up to the cache lookup, the write with the
\* assembly of the response, and the insertion, which also starts the timer
\* that deletes the key.
Writers == 1..MaxConcurrent

\* the time to live of a cache entry, in ticks of the clock
CacheTTL == 1

IdleWriter ==
  [pc |-> "idle", req |-> <<>>, path |-> <<>>, resp |-> <<>>, wrote |-> FALSE,
   insertedAt |-> Nil, timer |-> Nil]

InitWrites ==
  /\ hostTree = InitTree
  /\ hostIno = InitIno
  /\ inodeMap = Empty
  /\ generationMap = Empty
  /\ reqCache = Empty
  /\ clock = 0
  /\ enableRootSquash = FALSE
  /\ last = NoCall
  /\ prev = NoCall
  /\ ops = 0
  /\ chain = NoChain
  /\ workerPool = 0
  /\ calls = [r \in Writers |-> IdleWriter]

\* a step of a handler left the world w and the cache c
Lands(w, c) ==
  /\ Bounded(w)
  /\ hostTree' = w.tree
  /\ hostIno' = w.ino
  /\ inodeMap' = w.inodeMap
  /\ generationMap' = w.generationMap
  /\ reqCache' = c
  /\ UNCHANGED <<clock, enableRootSquash, last, prev, ops, chain, workerPool>>

\* NFSServer.Write up to the cache lookup: a failure, a cached response, or a
\* miss with the path to write
WriteLookup(w, cache, req) ==
  Let(Admit(w, req.FileHandle, req.Credentials, 2), LAMBDA a :
    IF a.status # "OK" THEN [kind |-> "fail", path |-> <<>>] @@ WriteFail(a.status, a.w, cache)
    ELSE Let(GetAttr(a.w, a.path), LAMBDA g :
      IF g.err # ""
      THEN [kind |-> "fail", path |-> <<>>] @@ WriteFail(MapErrorToStatus(g.err), g.w, cache)
      ELSE IF g.info.Type # "reg"
      THEN [kind |-> "fail", path |-> <<>>] @@ WriteFail("ERR_ISDIR", g.w, cache)
      ELSE IF tooBig(req.Data)
      THEN [kind |-> "fail", path |-> <<>>] @@ WriteFail("ERR_FBIG", g.w, cache)
      ELSE Let(getCachedResponse(cache, WriteCacheKey(req)), LAMBDA cached :
        IF cached.found
        THEN [kind |-> "hit", path |-> a.path, resp |-> cached.resp, w |-> g.w,
              cache |-> cache]
        ELSE [kind |-> "miss", path |-> a.path, resp |-> <<>>, w |-> g.w,
              cache |-> cache])))

\* NFSServer.Write from the write to the response, after a miss
WritePerform(w, req, path, now) ==
  Let(Write(w, path, ToInt64(req.Offset), req.Data, req.Stability = 2), LAMBDA wr :
    IF wr.err # "" THEN [kind |-> "fail"] @@ WriteFail(MapErrorToStatus(wr.err), wr.w, <<>>)
    ELSE Let(GetAttr(wr.w, path), LAMBDA after :
      [kind |-> "ok", w |-> after.w,
       resp |-> [Status |-> "OK", Count |-> wr.n, Stability |-> req.Stability,
                 Verifier |-> now,
                 Attributes |-> FSInfoToProtoAttributes(after.info)]]))

\* a request arrives and runs up to the cache lookup
WriterLookup(r, req) ==
  /\ calls[r].pc = "idle"
  /\ \E res \in {WriteLookup(World, reqCache, req)} :
       /\ Lands(res.w, reqCache)
       /\ calls' = [calls EXCEPT ![r].req = req, ![r].path = res.path,
                                  ![r].resp = res.resp,
                                  ![r].pc = IF res.kind = "miss" THEN "write"
                                            ELSE "returned"]

\* it writes and assembles its response
WriterPerform(r) ==
  /\ calls[r].pc = "write"
  /\ \E res \in {WritePerform(World, calls[r].req, calls[r].path, clock)} :
       /\ Lands(res.w, reqCache)
       /\ calls' = [calls EXCEPT ![r].resp = res.resp,
                                  ![r].wrote = (res.kind = "ok"),
                                  ![r].pc = IF res.kind = "ok" THEN "insert"
                                            ELSE "returned"]

\* cacheResponse: the entry is stored and the timer started; then the handler
\* returns
WriterInsert(r) ==
  /\ calls[r].pc = "insert"
  /\ Lands(World, cacheResponse(reqCache, WriteCacheKey(calls[r].req), calls[r].resp))
  /\ calls' = [calls EXCEPT ![r].pc = "returned", ![r].insertedAt = clock,
                             ![r].timer = clock + CacheTTL]

\* the function of time.AfterFunc runs once its time has come: it deletes
\* the key
TimerFires(r) ==
  /\ calls[r].timer # Nil
  /\ clock >= calls[r].timer
  /\ Lands(World, Drop(reqCache, {WriteCacheKey(calls[r].req)} \cap DOMAIN reqCache))
  /\ calls' = [calls EXCEPT ![r].timer = Nil]

\* the clock moves on, once the timers that are due have run; it stops only
\* past MaxClock with no timer left to come
TimePassesWrites ==
  /\ \/ clock < MaxClock
     \/ \E r \in Writers : calls[r].timer # Nil /\ calls[r].timer > clock
  /\ \A r \in Writers : calls[r].timer # Nil => calls[r].timer > clock
  /\ clock' = clock + 1
  /\ UNCHANGED <<hostTree, hostIno, inodeMap, generationMap, reqCache,
                 enableRootSquash, last, prev, ops, chain, workerPool, calls>>

WriterInputs ==
  {WriteRequest(t) : t \in
     ({H_a} \X {0} \X {<<1>>, <<2>>} \X {0} \X {UserCreds})
     \cup ({H_s} \X {0} \X {<<1>>} \X {0} \X {UserCreds})}

NextWrites ==
  \/ \E r \in Writers, req \in WriterInputs : WriterLookup(r, req)
  \/ \E r \in Writers : WriterPerform(r)
  \/ \E r \in Writers : WriterInsert(r)
  \/ \E r \in Writers : TimerFires(r)
  \/ TimePassesWrites

SpecWrites == InitWrites /\ [][NextWrites]_vars


\* ---- exclusive Create calls made at once
\* Each call runs LocalFileSystem.Create in a goroutine of its own. Between
\* the stat of the exclusive check and the open the call holds no lock: its
\* steps are the part up to that check and the open with what follows. A
\* client that got its file back writes to it.
Creators == 1..MaxConcurrent

IdleCreator == [pc |-> "idle", name |-> <<>>, excl |-> FALSE, err |-> "", ino |-> 0]

InitCreates ==
  /\ hostTree = InitTree
  /\ hostIno = InitIno
  /\ inodeMap = Empty
  /\ generationMap = Empty
  /\ reqCache = Empty
  /\ clock = 0
  /\ enableRootSquash = FALSE
  /\ last = NoCall
  /\ prev = NoCall
  /\ ops = 0
  /\ chain = NoChain
  /\ workerPool = 0
  /\ calls = [r \in Creators |-> IdleCreator]

\* Create up to the check for exclusive create: the error it fails with, or ""
CreateChecks(w, dir, name, excl) ==
  Let(resolvePath(dir), LAMBDA r :
    IF r.err # "" THEN r.err
    ELSE Let(HostStat(w, r.full), LAMBDA st :
      IF st.errno # "" THEN mapOSError("PathError", st.errno)
      ELSE IF w.ino[st.n].type # "dir" THEN "ErrNotDir"
      ELSE exclCheck(excl, HostStat(w, Join(r.full, name)).errno)))

\* Create from os.OpenFile on (the checks before it do not fail again)
CreateOpens(w, dir, name, fresh) == Create(w, dir, name, -1, FALSE, fresh)

\* a call arrives and runs up to the exclusive check
CreatorChecks(r, name, excl) ==
  /\ calls[r].pc = "idle"
  /\ calls' = [calls EXCEPT ![r].name = name, ![r].excl = excl,
                             ![r].err = CreateChecks(World, P_slash, name, excl),
                             ![r].pc = IF CreateChecks(World, P_slash, name, excl) = ""
                                       THEN "open" ELSE "returned"]
  /\ Lands(World, reqCache)

\* it opens the file with O_CREATE|O_TRUNC and returns
CreatorOpens(r, fresh) ==
  /\ calls[r].pc = "open"
  /\ \E res \in {CreateOpens(World, P_slash, calls[r].name, fresh)} :
       /\ Lands(res.w, reqCache)
       /\ calls' = [calls EXCEPT ![r].pc = "returned", ![r].err = res.err,
                                  ![r].ino = IF res.err = "" THEN res.info.Ino ELSE 0]

\* the caller of a Create that succeeded writes a byte to its file
CreatorWrites(r) ==
  /\ calls[r].pc = "returned" /\ calls[r].err = ""
  /\ \E res \in {Write(World, Join(P_slash, calls[r].name), 0, <<1>>, FALSE)} :
       /\ res.err = ""
       /\ res.w.ino # hostIno
       /\ Lands(res.w, reqCache)
  /\ UNCHANGED calls

NextCreates ==
  \/ \E r \in Creators, name \in {<<"x">>, <<"a">>}, excl \in BOOLEAN :
       CreatorChecks(r, name, excl)
  \/ \E r \in Creators, fresh \in FreshInodes : CreatorOpens(r, fresh)
  \/ \E r \in Creators : CreatorWrites(r)

SpecCreates == InitCreates /\ [][NextCreates]_vars


\* ---- one call of the client's callWithRetry
\* pkg/client: the function fn is the RPC; what it returns is up to the
\* server and the network. An error is "" for nil, a context error, a gRPC
\* status by the name of its code, or "plain" for an error without status.
MaxRetriesBound == 2

ContextErrors == {"context.DeadlineExceeded", "context.Canceled"}

StatusCodes ==
  {"Unavailable", "ResourceExhausted", "Aborted", "Internal", "Unknown", "NotFound",
   "Canceled", "DeadlineExceeded"}

RpcOutcomes == {""} \cup ContextErrors \cup StatusCodes \cup {"plain"}

\* every error but nil taken as retryable
isRetryableError_Always(err) == TRUE

\* isRetryableError
isRetryableError(err) ==
  IF err \in ContextErrors THEN FALSE
  ELSE IF err \in StatusCodes
  THEN err \in {"Unavailable", "ResourceExhausted", "Aborted", "Internal", "Unknown"}
  ELSE FALSE

NoReturn == [kind |-> "none", err |-> ""]

\* the call starts with attempt 0; MaxRetries is the client's configuration
InitRetry ==
  /\ hostTree = InitTree
  /\ hostIno = InitIno
  /\ inodeMap = Empty
  /\ generationMap = Empty
  /\ reqCache = Empty
  /\ clock = 0
  /\ enableRootSquash = FALSE
  /\ last = NoCall
  /\ prev = NoCall
  /\ ops = 0
  /\ chain = NoChain
  /\ workerPool = 0
  /\ \E m \in 0..MaxRetriesBound :
       calls = [pc |-> "call", MaxRetries |-> m, attempt |-> 0, lastErr |-> "",
                ctxDone |-> FALSE, result |-> NoReturn,
                outcomes |-> <<>>, cancelledAt |-> Nil]

\* the body of the loop up to the wait: fn returned err (outcomes is the
\* record of what fn returned, kept for the properties)
RetryAttempt(err) ==
  /\ calls.pc = "call"
  /\ calls.attempt <= calls.MaxRetries
  /\ calls' =
       Let([calls EXCEPT !.outcomes = Append(@, err)], LAMBDA c :
         IF err = "" \/ ~isRetryableError(err)
         THEN [c EXCEPT !.pc = "returned", !.result = [kind |-> "fn", err |-> err]]
         ELSE IF c.attempt = c.MaxRetries
         THEN [c EXCEPT !.pc = "returned", !.lastErr = err,
                        !.result = [kind |-> "wrapped", err |-> err]]
         ELSE [c EXCEPT !.pc = "wait", !.lastErr = err])
  /\ UNCHANGED workerPool
  /\ Quiet

\* the caller cancels the context, or its deadline passes (cancelledAt notes
\* the number of attempts made when that happened during a wait)
RetryCancel ==
  /\ calls.pc # "returned"
  /\ ~calls.ctxDone
  /\ calls' = [calls EXCEPT !.ctxDone = TRUE,
                             !.cancelledAt = IF calls.pc = "wait"
                                             THEN Len(calls.outcomes) ELSE @]
  /\ UNCHANGED workerPool
  /\ Quiet

\* the select of the wait: ctx.Done() when the context has ended, else the
\* timer of the (positive) delay, and the next attempt
RetrySelect ==
  /\ calls.pc = "wait"
  /\ calls' = IF calls.ctxDone
              THEN [calls EXCEPT !.pc = "returned",
                                 !.result = [kind |-> "ctx", err |-> "ctx.Err"]]
              ELSE [calls EXCEPT !.pc = "call", !.attempt = @ + 1]
  /\ UNCHANGED workerPool
  /\ Quiet

\* callWithRetry runs on
RetryRuns == (\E err \in RpcOutcomes : RetryAttempt(err)) \/ RetrySelect

NextRetry ==
  \/ \E err \in RpcOutcomes : RetryAttempt(err)
  \/ RetrySelect
  \/ RetryCancel

\* fn returns (each attempt has its timeout) and the timer fires
SpecRetry == InitRetry /\ [][NextRetry]_vars /\ WF_vars(RetryRuns)


\* ------------------------------------------------------------------ properties

\* C1: right after a successful PathToFileHandle(p), FileHandleToPath of the
\* handle it returned succeeds and returns exactly p, whatever call came before.
C1_HandleRoundTrip ==
  (last.op = "fs.PathToFileHandle" /\ last.resp.err = "")
    => Let(FileHandleToPath(World, last.resp.fh), LAMBDA r :
         r.err = "" /\ r.path = last.req.path)

\* a Lookup has indexed the file a as "/a", then PathToFileHandle("a") succeeded
C1_Witness ==
  /\ prev.op = "Lookup" /\ prev.req.Name = <<"a">> /\ prev.resp.Status = "OK"
  /\ last.op = "fs.PathToFileHandle" /\ last.req.path = <<"a">>
  /\ last.resp.err = ""
  /\ FileHandleToPath(World, last.resp.fh).path = <<"a">>

\* the host path q names: the root joined with the cleaned q
HostPathOf(q) == Join(rootPath, Clean(TrimPrefix(q, <<SLASH>>)))

\* q escapes the export root: the joined result is neither the root nor below it
Escapes(q) == ~Under(HostPathOf(q), rootPath)

\* C2: an operation given a path whose normalisation escapes the export root
\* fails with invalid-name and makes no host filesystem call.
C2_EscapeRejected ==
  (last.op = "fs.GetAttr" /\ Escapes(last.req.path))
    => (last.resp.err = "ErrInvalidName" /\ ~last.resp.host)

\* the paths a call added to the host tree
Created == DOMAIN hostTree \ DOMAIN last.before

\* C3: Create and Mkdir, given a parent inside the export root and any name,
\* create nothing at a host path outside the export root.
C3_CreateInsideRoot ==
  (last.op \in {"fs.Create", "fs.Mkdir", "Create", "Mkdir"})
    => \A p \in Created : Under(p, rootPath)

\* the latest call is a Read that passed the handle and access checks and
\* addresses a regular file
ReadAdmitted ==
  /\ last.op = "Read"
  /\ Let(Admit(World, last.req.FileHandle, last.req.Credentials, 4), LAMBDA a :
       a.status = "OK" /\ GetAttr(a.w, a.path).info.Type = "reg")

\* the content of the file the latest request's handle names
FileOf(handle) ==
  hostIno[HostStat(World, resolvePath(FileHandleToPath(World, handle).path).full).n].data

\* the bytes from off on, at most n of them and at most MaxReadSize
Expected(data, off, n) ==
  IF off >= Len(data) THEN <<>>
  ELSE SubSeq(data, off + 1,
              IF off + (IF n > MaxReadSize THEN MaxReadSize ELSE n) > Len(data)
              THEN Len(data)
              ELSE off + (IF n > MaxReadSize THEN MaxReadSize ELSE n))

\* C4: Read(h, off, n) on a regular file returns OK with the file's bytes from
\* off, at most min(n, size - off, MaxReadSize) of them (none when off >= size),
\* and eof exactly when off plus the bytes returned reaches the size.
C4_ReadContract ==
  ReadAdmitted
    => /\ last.resp.Status = "OK"
       /\ last.resp.Data =
            Expected(FileOf(last.req.FileHandle), last.req.Offset, last.req.Count)
       /\ last.resp.Eof
            <=> (last.req.Offset + Len(last.resp.Data)
                   >= Len(FileOf(last.req.FileHandle)))

\* C4 for the offsets that int64 represents (below 2^(OffsetBits-1))
C4_ReadContractSigned ==
  (ReadAdmitted /\ last.req.Offset < Pow2(OffsetBits - 1)) => C4_ReadContract

\* the latest two calls are the same operation, the second right after the first
\* (no cache entry expired in between)
BackToBack(op) == last.op = op /\ prev.op = op

\* C5: a Write that returned OK, replayed at once with the identical request,
\* returns OK with the same byte count and verifier and writes nothing, so the
\* file is as the first call left it.
C5_WriteReplay ==
  (BackToBack("Write") /\ last.req = prev.req /\ prev.resp.Status = "OK")
    => /\ last.resp.Status = "OK"
       /\ last.resp.Count = prev.resp.Count
       /\ last.resp.Verifier = prev.resp.Verifier
       /\ ~last.fsChanged

\* a write of one byte was replayed after the clock had moved on
C5_Witness ==
  /\ BackToBack("Write") /\ last.req = prev.req
  /\ prev.resp.Status = "OK" /\ prev.resp.Count = 1 /\ prev.resp.Verifier = 0
  /\ clock = 1
  /\ last.resp.Status = "OK" /\ last.resp.Verifier = 0

\* two exclusive creates of the same name in the same directory by the same
\* caller, the first of which succeeded
ExclusiveTwice ==
  /\ BackToBack("Create")
  /\ last.req.Mode = "EXCLUSIVE" /\ prev.req.Mode = "EXCLUSIVE"
  /\ last.req.DirectoryHandle = prev.req.DirectoryHandle
  /\ last.req.Name = prev.req.Name
  /\ last.req.Credentials = prev.req.Credentials
  /\ prev.resp.Status = "OK"

\* C6: an exclusive Create replayed with the same verifier returns OK and the
\* file handle of the first call; with a different verifier it returns ERR_EXIST.
C6_ExclusiveReplay ==
  ExclusiveTwice
    => IF last.req.Verifier = prev.req.Verifier
       THEN last.resp.Status = "OK" /\ last.resp.FileHandle = prev.resp.FileHandle
       ELSE last.resp.Status = "ERR_EXIST"

\* the same verifier was replayed and answered with the first handle
C6_Witness ==
  /\ ExclusiveTwice /\ last.req.Verifier = prev.req.Verifier
  /\ last.resp.Status = "OK" /\ Len(last.resp.FileHandle) = HandleSize
  /\ ~last.fsChanged

\* the inode a path named before the latest call, 0 when it named none
InodeBefore(path) ==
  Let(resolvePath(path), LAMBDA r :
    IF r.err = "" /\ r.full \in DOMAIN last.before THEN last.before[r.full] ELSE 0)

\* after the latest call old resolves to nothing and new to the inode old had
OldGoneNewHasInode ==
  /\ GetAttr(World, last.req.old).err = "ErrNotExist"
  /\ Let(GetAttr(World, last.req.new), LAMBDA g :
       g.err = "" /\ g.info.Ino = InodeBefore(last.req.old))

\* C8 as stated: after a successful Rename(old, new), old resolves to
\* not-exist (ERR_NOENT) and new resolves to the inode old had.
C8_RenameMoves ==
  (last.op = "fs.Rename" /\ last.resp.err = "") => OldGoneNewHasInode

\* C8, amended: the same, for a Rename whose new name did not already name
\* the object old names (renaming a file onto itself succeeds and changes nothing).
C8_RenameMovesElsewhere ==
  (/\ last.op = "fs.Rename" /\ last.resp.err = ""
   /\ InodeBefore(last.req.new) # InodeBefore(last.req.old))
    => OldGoneNewHasInode

\* the file a was renamed onto the existing file s
C8_Witness ==
  /\ last.op = "fs.Rename" /\ last.resp.err = ""
  /\ last.req.old = P_a /\ last.req.new = P_s
  /\ InodeBefore(P_a) = 3 /\ InodeBefore(P_s) = 4
  /\ GetAttr(World, P_s).info.Ino = 3

\* the handle a request carries
HandleIn(req) ==
  IF "FileHandle" \in DOMAIN req THEN req.FileHandle ELSE req.DirectoryHandle

\* the object a handle names now: its attributes, or none
ObjectOf(handle) ==
  IF validateFileHandle(handle) # "OK" THEN NoInfo
  ELSE Let(FileHandleToPath(World, handle), LAMBDA p :
         IF p.err # "" THEN NoInfo ELSE GetAttr(p.w, p.path).info)

\* the access mode a handler asks for
NeededMode(op) == CASE op = "Lookup" -> 5 [] op = "Write" -> 2 [] OTHER -> 4

\* the permission bits grant the mode to the owner and to nobody else
OwnerOnly(info, mode) ==
  /\ And3(mode, (info.Mode \div 64) % 8) = mode
  /\ And3(mode, (info.Mode \div 8) % 8) # mode
  /\ And3(mode, info.Mode % 8) # mode

\* C9: with root squash on, a request with uid 0 to GetAttr, Lookup, Read, Write
\* or ReadDir for an object whose owner is not the anonymous uid, and whose
\* permission bits grant the needed access to the owner only, gets ERR_ACCES.
C9_RootSquash ==
  (/\ enableRootSquash
   /\ last.op \in {"GetAttr", "Lookup", "Read", "Write", "ReadDir"}
   /\ last.req.Credentials.UID = 0
   /\ ObjectOf(HandleIn(last.req)).Type # "none"
   /\ ObjectOf(HandleIn(last.req)).Uid # AnonUID
   /\ OwnerOnly(ObjectOf(HandleIn(last.req)), NeededMode(last.op)))
    => last.resp.Status = "ERR_ACCES"

\* root asked to read the file s, which root owns with mode 0600, and was refused
C9_Witness ==
  /\ enableRootSquash
  /\ last.op = "Read" /\ last.req.FileHandle = H_s /\ last.req.Credentials.UID = 0
  /\ ObjectOf(H_s).Uid = 0 /\ ObjectOf(H_s).Mode = 384
  /\ last.resp.Status = "ERR_ACCES"

DirNames == {HostReadDir(World, rootPath)[i] : i \in 1..Len(HostReadDir(World, rootPath))}

\* the client has received no name twice
NoNameTwice ==
  \A i, j \in 1..Len(chain.seen) : chain.seen[i] = chain.seen[j] => i = j

\* the client has received a page with eof, and by then every name
EnumerationDone ==
  /\ chain.eof /\ chain.status = "OK"
  /\ {chain.seen[i] : i \in 1..Len(chain.seen)} = DirNames

\* C7: while the directory is not modified, a chain of ReadDir calls from cookie
\* 0, each passing the cookie of the last entry of the page before, never
\* returns a name twice, and after finitely many pages a response has eof, by
\* which time every name of the directory was returned.
C7_ChainEnumerates ==
  [](chain.active => NoNameTwice) /\ <>[](chain.active => EnumerationDone)

\* three names were enumerated one per page; the fourth page was empty with eof
C7_Witness ==
  /\ chain.active /\ chain.count = 1 /\ chain.pages = 4
  /\ chain.eof /\ chain.seen = <<<<"a">>, <<"d">>, <<"s">>>>

\* the handle is of another filesystem, or of another generation than the
\* index holds for its inode
StaleHandle(handle) ==
  /\ Len(handle) = HandleSize
  /\ Let(DeserializeFileHandle(handle).fh, LAMBDA fh :
       \/ fh.FileSystemID # fsID
       \/ /\ fh.Inode \in DOMAIN generationMap
          /\ fh.Generation # generationMap[fh.Inode])

\* C11: a 16-byte handle whose fs_id is not the server's, or whose generation
\* is not the one the index holds for its inode, never resolves to a path:
\* FileHandleToPath fails with stale and GetAttr answers ERR_STALE.
C11_StaleRejected ==
  /\ (last.op = "fs.FileHandleToPath" /\ StaleHandle(last.req.fh))
       => last.resp.err = "ErrStale"
  /\ (last.op = "GetAttr" /\ StaleHandle(last.req.FileHandle))
       => last.resp.Status = "ERR_STALE"

\* the part of C11 the program keeps: a handle with a foreign fs_id is stale
C11_ForeignFsRejected ==
  /\ (last.op = "fs.FileHandleToPath" /\ last.req.fh = H_a_fs2)
       => last.resp.err = "ErrStale"
  /\ (last.op = "GetAttr" /\ last.req.FileHandle = H_a_fs2)
       => last.resp.Status = "ERR_STALE"

\* the server issued a handle for the inode (PathToFileHandle stored its generation)
Issued(handle) ==
  /\ Len(handle) = HandleSize
  /\ DeserializeFileHandle(handle).fh.FileSystemID = fsID
  /\ DeserializeFileHandle(handle).fh.Inode \in DOMAIN generationMap

\* no file of the export has the handle's inode any more
Gone(handle) ==
  \A p \in DOMAIN hostTree :
    Under(p, rootPath) => hostTree[p] # DeserializeFileHandle(handle).fh.Inode

\* C12: GetAttr with a handle the server created for a file that has since been
\* deleted behind the server's back answers ERR_STALE.
C12_DeletedIsStale ==
  (last.op = "GetAttr" /\ Issued(last.req.FileHandle) /\ Gone(last.req.FileHandle))
    => last.resp.Status = "ERR_STALE"

\* a GUARDED create by the owner of the export's root directory, in that directory
GuardedCreate(call) ==
  /\ call.op = "Create" /\ call.req.Mode = "GUARDED"
  /\ call.req.DirectoryHandle = H_root /\ call.req.Credentials = UserCreds

\* C13: a GUARDED Create of a name that exists in the directory answers
\* ERR_EXIST and leaves the filesystem (the existing file's content and
\* attributes) as it was; so does a GUARDED create repeated right after one
\* that succeeded.
C13_GuardedExisting ==
  /\ (GuardedCreate(last) /\ Join(rootPath, last.req.Name) \in DOMAIN last.before)
       => (last.resp.Status = "ERR_EXIST" /\ ~last.fsChanged)
  /\ (GuardedCreate(last) /\ GuardedCreate(prev) /\ prev.req = last.req
        /\ prev.resp.Status = "OK")
       => (last.resp.Status = "ERR_EXIST" /\ ~last.fsChanged)

\* a GUARDED create of x succeeded and was repeated
C13_Witness ==
  /\ GuardedCreate(prev) /\ prev.req.Name = <<"x">> /\ prev.resp.Status = "OK"
  /\ GuardedCreate(last) /\ last.req = prev.req
  /\ last.resp.Status = "ERR_EXIST"
  /\ Join(rootPath, <<"x">>) \in DOMAIN hostTree

\* the caller of the latest request may use the object its handle names in mode
MayAccess(mode) ==
  Let(ObjectOf(HandleIn(last.req)), LAMBDA info :
    /\ info.Type # "none"
    /\ And3(mode, checkPerm(hostIno[info.Ino], SquashCreds(last.req.Credentials))) = mode)

\* C14: a Write whose data is longer than max_write writes nothing and stores
\* nothing in the idempotency cache; when its handle names a regular file the
\* caller may write, the answer is ERR_FBIG.
C14_TooBig ==
  (last.op = "Write" /\ Len(last.req.Data) > MaxWriteSize)
    => /\ last.resp.Status # "OK"
       /\ ~last.fsChanged /\ ~last.cacheChanged
       /\ (ObjectOf(last.req.FileHandle).Type = "reg" /\ MayAccess(2))
            => last.resp.Status = "ERR_FBIG"

\* five bytes were sent to the file a, which its owner may write
C14_Witness ==
  /\ last.op = "Write" /\ last.req.FileHandle = H_a /\ last.req.Data = <<1, 1, 1, 1, 1>>
  /\ MayAccess(2)
  /\ last.resp.Status = "ERR_FBIG"
  /\ hostIno[3].data = <<1, 2>>

\* the requests that hold a slot: between acquireWorker and the release
Holding == {r \in DOMAIN calls : calls[r].pc \in {"process", "release"}}

\* C15: in every interleaving at most max_concurrent requests are between
\* taking a slot and giving it back (so at most that many run their filesystem
\* operation), the pool holds exactly one slot for each of them, a request
\* that returned a response released once, and a request that failed admission
\* never released.
C15_PoolBound ==
  /\ Cardinality(Holding) <= MaxConcurrent
  /\ workerPool = Cardinality(Holding)
  /\ \A r \in DOMAIN calls :
       /\ calls[r].released =
            (IF calls[r].pc = "returned" /\ calls[r].result.kind = "response"
             THEN 1 ELSE 0)
       /\ (calls[r].result.kind = "error" => calls[r].released = 0)

\* the pool is full: two requests hold a slot, one of them about to run its
\* handler, while another request waits in acquireWorker
C15_Witness ==
  /\ Cardinality(Holding) = MaxConcurrent
  /\ \E r \in DOMAIN calls : calls[r].pc = "acquire"
  /\ \E r \in DOMAIN calls : calls[r].pc = "process"

\* the status codes of the error mapper's taxonomy
Taxonomy ==
  {"OK", "ERR_PERM", "ERR_NOENT", "ERR_IO", "ERR_ACCES", "ERR_EXIST", "ERR_NOTDIR",
   "ERR_ISDIR", "ERR_INVAL", "ERR_FBIG", "ERR_NOSPC", "ERR_ROFS", "ERR_NAMETOOLONG",
   "ERR_NOTEMPTY", "ERR_STALE", "ERR_BADHANDLE", "ERR_BAD_COOKIE", "ERR_NOTSUPP",
   "ERR_SERVERFAULT"}

\* C16: every request that returned carries a response whose status is OK or
\* another code of the taxonomy; none returned a transport-level error.
C16_AlwaysAResponse ==
  \A r \in DOMAIN calls :
    calls[r].pc = "returned"
      => (calls[r].result.kind = "response" /\ calls[r].result.status \in Taxonomy)

\* the part of C16 the program keeps: a request that was admitted returns a
\* response with a status of the taxonomy
C16_AdmittedGetResponse ==
  /\ \A r \in DOMAIN calls :
       (calls[r].pc = "returned" /\ calls[r].released = 1)
         => (calls[r].result.kind = "response" /\ calls[r].result.status \in Taxonomy)
  /\ last.op \in {"GetAttr", "Lookup", "Read", "Write", "ReadDir", "Create", "Mkdir"}
       => last.resp.Status \in Taxonomy

\* a ReadDir that resumes an enumeration: the call before it returned a page of
\* the same directory, and this one echoes a cookie of that page
ResumesEnumeration ==
  /\ prev.op = "ReadDir" /\ prev.resp.Status = "OK"
  /\ last.op = "ReadDir"
  /\ last.req.DirectoryHandle = prev.req.DirectoryHandle
  /\ last.req.Cookie # 0
  /\ \E i \in DOMAIN prev.resp.Entries : prev.resp.Entries[i].Cookie = last.req.Cookie

\* C17: a ReadDir with a non-zero cookie whose cookie verifier differs from the
\* verifier the server issued for that enumeration is answered ERR_BAD_COOKIE.
C17_MismatchRejected ==
  (ResumesEnumeration /\ last.req.CookieVerifier # prev.resp.CookieVerifier)
    => last.resp.Status = "ERR_BAD_COOKIE"

\* C18: the write verifier is a constant of the server's lifetime: two
\* successful Write responses of one server carry the same verifier.
C18_VerifierConstant ==
  (/\ prev.op = "Write" /\ prev.resp.Status = "OK"
   /\ last.op = "Write" /\ last.resp.Status = "OK")
    => last.resp.Verifier = prev.resp.Verifier

\* a second server started over the same export root on the same host: it has
\* the same rootPath, hence the same fsID, and has observed no file yet
SecondServer == [World EXCEPT !.inodeMap = Empty, !.generationMap = Empty]

\* the handle, or the error, a server in state w answers for path p
HandleFor(w, p) == Let(PathToFileHandle(w, p), LAMBDA r : [err |-> r.err, fh |-> r.fh])

\* C19: whatever files this server has observed before, and in whatever
\* order, the handle it answers for a path is byte for byte the handle a second
\* server over the same export root answers for that path.
C19_SameHandles ==
  last.op = "fs.PathToFileHandle"
    => last.resp = HandleFor(SecondServer, last.req.path)

\* this server handed out the handles of two different files, one after the
\* other, and the second server has seen neither
C19_Witness ==
  /\ prev.op = "fs.PathToFileHandle" /\ prev.resp.err = ""
  /\ last.op = "fs.PathToFileHandle" /\ last.resp.err = ""
  /\ prev.resp.fh # last.resp.fh
  /\ Cardinality(DOMAIN generationMap) = 2
  /\ Len(last.resp.fh) = HandleSize

\* the request passes the steps NFSServer.Write takes before it consults the
\* cache: the handle and access checks, the regular-file check, the size limit
ReachesCache(req) ==
  Let(Admit(World, req.FileHandle, req.Credentials, 2), LAMBDA a :
    /\ a.status = "OK"
    /\ Let(GetAttr(a.w, a.path), LAMBDA g : g.err = "" /\ g.info.Type = "reg")
    /\ Len(req.Data) <= MaxWriteSize)

\* the inode of the file the handle names
InodeOf(handle) ==
  HostStat(World, resolvePath(FileHandleToPath(World, handle).path).full).n

\* new is old with d written at off
Written(old, new, off, d) ==
  /\ Len(new) = IF d = <<>> \/ off + Len(d) <= Len(old) THEN Len(old) ELSE off + Len(d)
  /\ \A i \in 1..Len(new) :
       new[i] = IF i > off /\ i <= off + Len(d) THEN d[i - off]
                ELSE IF i <= Len(old) THEN old[i] ELSE 0

\* the step is the reply to a Write
WriteStep == ops' = ops + 1 /\ last'.op = "Write"

\* C20: a Write that reaches the cache with its key present returns the cached
\* response and leaves the host filesystem and the cache as they were; one
\* whose key is absent writes the data at the offset, answers OK with the byte
\* count, and the cache afterwards holds that response under the key.
C20_HitOrMiss ==
  [][(WriteStep /\ ReachesCache(last'.req) /\ last'.req.Offset < Pow2(OffsetBits - 1))
       => Let(WriteCacheKey(last'.req), LAMBDA key :
            IF key \in DOMAIN reqCache
            THEN /\ last'.resp = reqCache[key]
                 /\ hostTree' = hostTree /\ hostIno' = hostIno
                 /\ reqCache' = reqCache
            ELSE /\ last'.resp.Status = "OK"
                 /\ last'.resp.Count = Len(last'.req.Data)
                 /\ hostTree' = hostTree
                 /\ Let(InodeOf(last'.req.FileHandle), LAMBDA n :
                      /\ Written(hostIno[n].data, hostIno'[n].data,
                                 last'.req.Offset, last'.req.Data)
                      /\ \A m \in DOMAIN hostIno \ {n} : hostIno'[m] = hostIno[m])
                 /\ reqCache' = Put(reqCache, key, last'.resp))]_vars

\* a Write missed the cache, wrote and stored its response; the next Write, a
\* different request with the same key, got that response and wrote nothing
C20_Witness ==
  /\ prev.op = "Write" /\ prev.resp.Status = "OK"
  /\ prev.fsChanged /\ prev.cacheChanged
  /\ last.op = "Write" /\ last.req # prev.req
  /\ WriteCacheKey(last.req) = WriteCacheKey(prev.req)
  /\ reqCache[WriteCacheKey(last.req)] = prev.resp
  /\ last.resp = prev.resp
  /\ ~last.fsChanged /\ ~last.cacheChanged

\* C21: every response the idempotency cache holds has status OK, and a Write
\* that failed stored nothing, so its replay finds no entry of its own and is
\* executed again.
C21_NoFailureCached ==
  /\ \A key \in DOMAIN reqCache : reqCache[key].Status = "OK"
  /\ (last.op = "Write" /\ last.resp.Status # "OK") => ~last.cacheChanged

\* a Write stored its response; the next Write passed every check, failed in
\* the filesystem's write, and the cache still holds the one entry
C21_Witness ==
  /\ prev.op = "Write" /\ prev.resp.Status = "OK" /\ prev.cacheChanged
  /\ last.op = "Write" /\ last.resp.Status = "ERR_INVAL"
  /\ Cardinality(DOMAIN reqCache) = 1
  /\ WriteCacheKey(last.req) \notin DOMAIN reqCache

\* the latest two calls are Writes that differ in handle, offset or data
DifferentWrites ==
  /\ BackToBack("Write")
  /\ <<last.req.FileHandle, last.req.Offset, last.req.Data>>
       # <<prev.req.FileHandle, prev.req.Offset, prev.req.Data>>

\* C22: a Write that differs in handle, offset or data from the Write before it
\* is not answered from that Write's cache entry: when both succeed, the second
\* reports its own byte count and stores a cache entry of its own.
C22_NoSharedEntry ==
  (DifferentWrites /\ prev.resp.Status = "OK" /\ last.resp.Status = "OK")
    => /\ last.resp.Count = Len(last.req.Data)
       /\ last.cacheChanged
       /\ WriteCacheKey(last.req) # WriteCacheKey(prev.req)

\* the part of C22 the program keeps: writes whose data have different CRC-32
\* values, or that differ in handle or offset, never share an entry
C22_NoSharedEntryBarCrc ==
  (DifferentWrites /\ prev.resp.Status = "OK" /\ last.resp.Status = "OK"
     /\ WriteCacheKey(last.req) # WriteCacheKey(prev.req))
    => /\ last.resp.Count = Len(last.req.Data)
       /\ last.cacheChanged

\* bit k of m
Bit(m, k) == (m \div Pow2(k)) % 2

\* where the class of the caller starts in the permission bits: 6 for the
\* owner, 3 for the group, 0 for the others
ClassShift(f, creds) ==
  IF creds.UID = f.uid THEN 6
  ELSE IF creds.GID = f.gid \/ f.gid \in creds.Groups THEN 3
  ELSE 0

\* every rwx bit the caller asks for is set in the bits of its class
Granted(f, creds, required) ==
  \A k \in 0..2 : Bit(required, k) = 1 => Bit(f.mode, k + ClassShift(f, creds)) = 1

\* the latest call is an Access on a path that exists
AccessOnExisting ==
  /\ last.op = "fs.Access"
  /\ resolvePath(last.req.path).err = ""
  /\ resolvePath(last.req.path).full \in DOMAIN hostTree

\* C23: Access selects the owner bits when the uids are equal, else the group
\* bits when the gid is the file's or the file's gid is among the groups, else
\* the other bits; it grants exactly when every required bit is in the selected
\* bits, and a denial is the permission error, which maps to ERR_ACCES.
C23_AccessClasses ==
  AccessOnExisting
    => Let(hostIno[hostTree[resolvePath(last.req.path).full]], LAMBDA f :
         IF Granted(f, last.req.creds, last.req.mode)
         THEN last.resp.err = ""
         ELSE /\ last.resp.err = "ErrPermission"
              /\ MapErrorToStatus(last.resp.err) = "ERR_ACCES")

\* a caller who is in the file's group only by a supplementary group was
\* granted write by the group bits, which the other bits would have denied,
\* after the owner was denied it by the owner bits
C23_Witness ==
  /\ AccessOnExisting /\ last.req.path = P_a
  /\ hostIno[3].mode = 52
  /\ last.req.creds.UID # hostIno[3].uid /\ last.req.creds.GID # hostIno[3].gid
  /\ hostIno[3].gid \in last.req.creds.Groups
  /\ last.req.mode = 2 /\ last.resp.err = ""
  /\ prev.op = "fs.Access" /\ prev.req.creds = UserCreds /\ prev.req.mode = 2
  /\ prev.resp.err = "ErrPermission"

\* C24: a request never waits for a slot past request_timeout: once that long
\* has gone by, it has stopped waiting.
C24_WaitBounded ==
  \A r \in DOMAIN calls :
    calls[r].pc = "acquire" => calls[r].waited <= RequestTimeout

\* the part of C24 the program keeps: a request that gave up waiting because
\* its context ended returned an error and never held a slot
C24_GaveUpHeldNothing ==
  \A r \in DOMAIN calls :
    (calls[r].pc = "returned" /\ calls[r].result.kind = "error")
      => calls[r].ctxDone /\ calls[r].released = 0

\* the step is the return of a FileHandleToPath whose handle is well formed,
\* carries this export's fs_id, and names an inode the index does not hold
ColdHandleStep ==
  /\ ops' = ops + 1 /\ last'.op = "fs.FileHandleToPath"
  /\ Len(last'.req.fh) >= HandleSize
  /\ DeserializeFileHandle(last'.req.fh).fh.FileSystemID = fsID
  /\ DeserializeFileHandle(last'.req.fh).fh.Inode \notin DOMAIN inodeMap

\* the paths below the export root whose inode is n
PathsOfInode(n) == {p \in DOMAIN hostTree : Under(p, rootPath) /\ hostTree[p] = n}

\* C25: for a well-formed handle of this export whose inode is not in the
\* index, the answer is stale only if no path below the export root has that
\* inode; if one has, the answer is a path of that inode and the index holds
\* the inode with that path afterwards.
C25_WalkBeforeStale ==
  [][ColdHandleStep
       => Let(DeserializeFileHandle(last'.req.fh).fh.Inode, LAMBDA n :
            IF PathsOfInode(n) = {}
            THEN last'.resp.err = "ErrStale" /\ inodeMap' = inodeMap
            ELSE /\ last'.resp.err = ""
                 /\ resolvePath(last'.resp.path).full \in PathsOfInode(n)
                 /\ inodeMap' = Put(inodeMap, n, last'.resp.path))]_vars

\* the handle of an inode no file has was answered stale; then the handle of
\* the file a, which the index did not hold, was found by the walk and indexed
C25_Witness ==
  /\ prev.op = "fs.FileHandleToPath" /\ prev.req.fh = H_new
  /\ prev.resp.err = "ErrStale" /\ ~prev.indexChanged
  /\ last.op = "fs.FileHandleToPath" /\ last.req.fh = H_a
  /\ last.resp.err = "" /\ last.resp.path = P_a
  /\ last.indexChanged /\ inodeMap = (3 :> P_a)

\* a handle was issued for a path, and the next call renamed that path to
\* another one and succeeded
RenamedAfterIssue ==
  /\ prev.op = "fs.PathToFileHandle" /\ prev.resp.err = ""
  /\ last.op = "fs.Rename" /\ last.resp.err = ""
  /\ last.req.old = prev.req.path
  /\ resolvePath(last.req.new).full # resolvePath(last.req.old).full

\* C26: after a successful Rename through this filesystem, the handle issued
\* for the object before the rename resolves to a path that names the object
\* at its new place.
C26_RenameUpdatesIndex ==
  RenamedAfterIssue
    => Let(FileHandleToPath(World, prev.resp.fh), LAMBDA r :
         /\ r.err = ""
         /\ resolvePath(r.path).full = resolvePath(last.req.new).full)

\* the file a, for which a handle had been issued, was deleted, and the create
\* that followed gave its inode number to a new file
InodeReused ==
  /\ Issued(H_a)
  /\ prev.op = "host.unlink"
  /\ last.op = "fs.Create" /\ last.resp.err = ""
  /\ last.resp.info.Ino = DeserializeFileHandle(H_a).fh.Inode

\* C27: no generation below 1 is ever issued, and once the inode number of a
\* removed file is reused by a new file, the handle issued for the removed file
\* is rejected as stale.
C27_ReuseBumpsGeneration ==
  /\ \A n \in DOMAIN generationMap : generationMap[n] >= 1
  /\ InodeReused => FileHandleToPath(World, H_a).err = "ErrStale"

\* the part of C27 the program keeps: every generation issued is 1 or more and
\* a generation, once stored for an inode, never decreases
C27_GenerationNeverDecreases ==
  [][/\ \A n \in DOMAIN generationMap' : generationMap'[n] >= 1
     /\ \A n \in DOMAIN generationMap :
          n \in DOMAIN generationMap' /\ generationMap'[n] >= generationMap[n]]_vars

\* the names of the directory the latest ReadDir request addresses, in the
\* order the host lists them
Listing ==
  HostReadDir(World, resolvePath(FileHandleToPath(World, last.req.DirectoryHandle).path).full)

\* the number of entries after position cookie
Available(cookie) == IF cookie >= Len(Listing) THEN 0 ELSE Len(Listing) - cookie

\* the cap of a batch: 1000 when count is 0, else the smaller of count and 10000
Cap(count) == IF count = 0 THEN 1000 ELSE IF count < 10000 THEN count ELSE 10000

\* the latest call is a ReadDir that succeeded, with a cookie int64 represents
ReadDirServed ==
  /\ last.op = "ReadDir" /\ last.resp.Status = "OK"
  /\ last.req.Cookie < Pow2(OffsetBits - 1)

NamesReturned == {last.resp.Entries[i].Name : i \in DOMAIN last.resp.Entries}

\* the latest call is a successful ReadDir from cookie 0 whose cap exceeds the
\* number of children
FullListing ==
  /\ ReadDirServed /\ last.req.Cookie = 0
  /\ Cap(last.req.Count) > Len(Listing)

\* C30: a ReadDir from cookie 0 with a sufficient count returns an entry
\* named "." and an entry named "..", besides one entry for every child.
C30_DotEntries ==
  FullListing
    => /\ <<".">> \in NamesReturned /\ <<".", ".">> \in NamesReturned
       /\ \A i \in DOMAIN Listing : Listing[i] \in NamesReturned

\* the part of C30 the program keeps: the response holds exactly one entry for
\* every child of the directory, and nothing else
C30_ChildrenOnly ==
  FullListing
    => /\ Len(last.resp.Entries) = Len(Listing)
       /\ \A i \in DOMAIN Listing : last.resp.Entries[i].Name = Listing[i]

\* the step is the return of an Rmdir whose path names an existing object
RmdirStep ==
  /\ ops' = ops + 1 /\ last'.op = "fs.Rmdir"
  /\ resolvePath(last'.req.path).full \in DOMAIN hostTree

\* C31: Rmdir of a non-directory fails with not-a-directory, Rmdir of a
\* directory that still has entries fails with not-empty, and neither removes
\* anything; Rmdir of an empty directory succeeds and the directory is gone
\* while every other path stays.
C31_RmdirContract ==
  [][RmdirStep
       => Let(resolvePath(last'.req.path).full, LAMBDA full :
            IF hostIno[hostTree[full]].type # "dir"
            THEN /\ last'.resp.err = "ErrNotDir"
                 /\ hostTree' = hostTree /\ hostIno' = hostIno
            ELSE IF Children(World, full) # {}
            THEN /\ last'.resp.err = "ErrNotEmpty"
                 /\ hostTree' = hostTree /\ hostIno' = hostIno
            ELSE /\ last'.resp.err = ""
                 /\ hostTree' = Drop(hostTree, {full}))]_vars

\* Rmdir of the file a was refused as not a directory and removed nothing;
\* then Rmdir of the empty directory d succeeded and d is gone
C31_Witness ==
  /\ prev.op = "fs.Rmdir" /\ prev.req.path = P_a
  /\ prev.resp.err = "ErrNotDir" /\ ~prev.fsChanged
  /\ last.op = "fs.Rmdir" /\ last.req.path = P_d
  /\ last.resp.err = "" /\ resolvePath(P_d).full \notin DOMAIN hostTree
  /\ resolvePath(P_a).full \in DOMAIN hostTree

\* Rmdir of the export root, which has entries, was refused as not empty
C31_WitnessNotEmpty ==
  /\ last.op = "fs.Rmdir" /\ last.req.path = P_slash
  /\ last.resp.err = "ErrNotEmpty" /\ ~last.fsChanged

\* a Lookup that succeeded on a name other than "." and ".."
LookupByName ==
  /\ last.op = "Lookup" /\ last.resp.Status = "OK"
  /\ last.req.Name \notin {DOT, DOTDOT}

\* the inode a handle carries
InodeIn(handle) == DeserializeFileHandle(handle).fh.Inode

\* C32: a Lookup that succeeds on a name other than "." and ".." was given a
\* single-component name, and the object it returns is the entry of that name
\* directly inside the directory.
C32_DirectChildOnly ==
  LookupByName
    => /\ \A i \in 1..Len(last.req.Name) : last.req.Name[i] # SLASH
       /\ \E p \in PathsOfInode(InodeIn(last.req.DirectoryHandle)) :
            /\ Join(p, last.req.Name) \in DOMAIN hostTree
            /\ Dir(Join(p, last.req.Name)) = p
            /\ hostTree[Join(p, last.req.Name)] = InodeIn(last.resp.FileHandle)

\* C32 (the part that holds): "." resolves to the directory itself and ".." to
\* its lexical parent, the root for the root.
C32_DotAndDotDot ==
  (last.op = "Lookup" /\ last.resp.Status = "OK" /\ last.req.Name \in {DOT, DOTDOT})
    => \E p \in PathsOfInode(InodeIn(last.req.DirectoryHandle)) :
         hostTree[IF last.req.Name = DOT \/ p = rootPath THEN p ELSE Dir(p)]
           = InodeIn(last.resp.FileHandle)

\* the step is the return of a SetAttr that succeeded
SetAttrStep ==
  /\ ops' = ops + 1 /\ last'.op = "fs.SetAttr" /\ last'.resp.err = ""

\* the inode the path of the call named when it was made
SetAttrInode == hostTree[resolvePath(last'.req.path).full]

\* C33: a SetAttr that succeeds leaves every attribute the request does not
\* carry as it was: mode, uid, gid, size and contents, access time, and
\* modification time (which a change of size stamps on the host's side).
C33_AbsentUnchanged ==
  [][SetAttrStep
       => Let(last'.req.attr, LAMBDA attr :
          Let(hostIno[SetAttrInode], LAMBDA old :
          Let(hostIno'[SetAttrInode], LAMBDA new :
            /\ attr.Mode = Nil => new.mode = old.mode
            /\ attr.Uid = Nil => new.uid = old.uid
            /\ attr.Gid = Nil => new.gid = old.gid
            /\ attr.Size = Nil => new.data = old.data
            /\ attr.AccessTime = Nil => new.atime = old.atime
            /\ (attr.ModifyTime = Nil /\ attr.Size = Nil) => new.mtime = old.mtime)))]_vars

\* C33 (the part that holds): the same, but for the access time only when the
\* request carries neither time.
C33_AbsentUnchangedBarAtime ==
  [][SetAttrStep
       => Let(last'.req.attr, LAMBDA attr :
          Let(hostIno[SetAttrInode], LAMBDA old :
          Let(hostIno'[SetAttrInode], LAMBDA new :
            /\ attr.Mode = Nil => new.mode = old.mode
            /\ attr.Uid = Nil => new.uid = old.uid
            /\ attr.Gid = Nil => new.gid = old.gid
            /\ attr.Size = Nil => new.data = old.data
            /\ (attr.AccessTime = Nil /\ attr.ModifyTime = Nil)
                 => new.atime = old.atime
            /\ (attr.ModifyTime = Nil /\ attr.Size = Nil) => new.mtime = old.mtime
            /\ \A n \in DOMAIN hostIno \ {SetAttrInode} : hostIno'[n] = hostIno[n]
            /\ hostTree' = hostTree)))]_vars

\* the status the taxonomy lists for a host failure condition, ERR_IO for a
\* condition it does not list
StatusListed(errno) ==
  CASE errno = "EPERM" -> "ERR_PERM"
    [] errno = "ENOENT" -> "ERR_NOENT"
    [] errno = "EIO" -> "ERR_IO"
    [] errno = "EACCES" -> "ERR_ACCES"
    [] errno = "EEXIST" -> "ERR_EXIST"
    [] errno = "ENOTDIR" -> "ERR_NOTDIR"
    [] errno = "EISDIR" -> "ERR_ISDIR"
    [] errno = "EINVAL" -> "ERR_INVAL"
    [] errno = "EFBIG" -> "ERR_FBIG"
    [] errno = "ENOSPC" -> "ERR_NOSPC"
    [] errno = "EROFS" -> "ERR_ROFS"
    [] errno = "ENAMETOOLONG" -> "ERR_NAMETOOLONG"
    [] errno = "ENOTEMPTY" -> "ERR_NOTEMPTY"
    [] OTHER -> "ERR_IO"

\* C34: a host failure, passed through mapOSError and then MapErrorToStatus,
\* gets the status the taxonomy lists for its condition, and ERR_IO when the
\* taxonomy does not list it.
C34_ComposedMapping ==
  last.op = "HostFailure" => last.resp.Status = StatusListed(last.req.errno)

\* the conditions the composition does carry to their status
CarriedErrnos == {"ENOENT", "EIO", "EACCES", "EEXIST", "EBUSY", "EXDEV", "EMFILE"}

\* C34 (the part that holds): no-such-file, I/O, permission denied and
\* already-exists get their listed status, invalid-argument and out-of-space
\* get theirs when the failure is a *PathError, every unlisted errno gets
\* ERR_IO, and the status is always one of the taxonomy.
C34_ComposedMappingCarried ==
  last.op = "HostFailure"
    => /\ last.resp.Status \in Taxonomy
       /\ (\/ last.req.errno \in CarriedErrnos
           \/ (last.req.errno \in {"EINVAL", "ENOSPC"} /\ last.req.kind = "PathError"))
            => last.resp.Status = StatusListed(last.req.errno)

\* the calls of the filesystem core that change the tree
TreeChangingOps == {"fs.Create", "fs.Mkdir", "fs.Remove", "fs.Rmdir", "fs.Rename"}

\* the calls of the filesystem core
CoreOps ==
  TreeChangingOps \cup {"fs.GetAttr", "fs.PathToFileHandle", "fs.FileHandleToPath"}

\* FileHandleToPath of h succeeds now with a path at which an object of
\* another inode lies
GivesOtherObject(h) ==
  Let(FileHandleToPath(World, h), LAMBDA r :
    /\ r.err = ""
    /\ resolvePath(r.path).full \in DOMAIN hostTree
    /\ hostTree[resolvePath(r.path).full] # InodeIn(h))

\* C35: after calls of the filesystem core only, a FileHandleToPath that
\* succeeds never returns a path at which an object of another inode than the
\* handle's lies.
C35_HandleNamesItsInode ==
  (prev.op \in CoreOps /\ last.op \in TreeChangingOps)
    => \A h \in {H_a, H_s, H_d, H_new} : ~GivesOtherObject(h)

\* two requests with the same handle, offset and data have both returned OK
SameWriteTwice(r1, r2) ==
  /\ r1 # r2
  /\ calls[r1].pc = "returned" /\ calls[r2].pc = "returned"
  /\ calls[r1].req = calls[r2].req
  /\ calls[r1].resp.Status = "OK" /\ calls[r2].resp.Status = "OK"

\* C36: of two Write requests with the same handle, offset and data handled
\* at once, at most one performs the backing write, and both return the same
\* byte count and verifier.
C36_OneBackingWrite ==
  \A r1 \in DOMAIN calls, r2 \in DOMAIN calls :
    SameWriteTwice(r1, r2)
      => /\ ~(calls[r1].wrote /\ calls[r2].wrote)
         /\ calls[r1].resp.Count = calls[r2].resp.Count
         /\ calls[r1].resp.Verifier = calls[r2].resp.Verifier

\* C36 (the part that holds): when the second request reaches the lookup only
\* after the first has inserted its response, and the entry is still there,
\* it writes nothing and returns the first one's response.
C36_HitAfterInsert ==
  [][\A r \in Writers, req \in WriterInputs :
       (WriterLookup(r, req) /\ WriteLookup(World, reqCache, req).kind # "fail"
        /\ WriteCacheKey(req) \in DOMAIN reqCache)
         => /\ calls'[r].pc = "returned" /\ ~calls'[r].wrote
            /\ calls'[r].resp = reqCache[WriteCacheKey(req)]
            /\ hostIno' = hostIno]_vars

\* the greatest of a set of times, Nil for none
MaxOf(S) == IF S = {} THEN Nil ELSE CHOOSE x \in S : \A y \in S : y <= x

\* the time of the most recent insertion of key
LatestInsertion(key) ==
  MaxOf({calls[r].insertedAt : r \in {q \in Writers :
           calls[q].insertedAt # Nil /\ WriteCacheKey(calls[q].req) = key}})

\* the step removes the entry of key from the cache
Removed(key) == key \in DOMAIN reqCache /\ key \notin DOMAIN reqCache'

\* C39: an entry of the cache is removed only when its time to live, counted
\* from the most recent insertion of its key, has elapsed.
C39_FullTTL ==
  [][\A r \in Writers :
       (calls[r].req # <<>> /\ Removed(WriteCacheKey(calls[r].req)))
         => clock >= LatestInsertion(WriteCacheKey(calls[r].req)) + CacheTTL]_vars

\* C39 (the part that holds): with timers that run when they are due, no
\* entry is in the cache past the time to live of the latest insertion of its
\* key.
C39_Removed ==
  \A r \in DOMAIN calls :
    ("insertedAt" \in DOMAIN calls[r] /\ calls[r].insertedAt # Nil
     /\ WriteCacheKey(calls[r].req) \in DOMAIN reqCache)
      => clock <= LatestInsertion(WriteCacheKey(calls[r].req)) + CacheTTL

\* what the checks before the cache answer for the request of the step, in
\* the state the request found
Admission == Admit(World, last'.req.FileHandle, last'.req.Credentials, 2).status

\* C38: a Write whose handle fails validation or resolution, or whose caller,
\* after the root squash, is denied write access, gets that failure as its
\* status, whatever the cache holds for its key: no cached response is
\* returned to it, nothing is written and the cache stays as it was.
C38_DeniedNeverServed ==
  [][(WriteStep /\ Admission # "OK")
       => /\ last'.resp.Status = Admission
          /\ last'.resp.Count = 0
          /\ hostIno' = hostIno
          /\ reqCache' = reqCache]_vars

\* a write by the file's owner was cached; the same write, sent next by uid 0
\* under root squash, found the entry in the cache and was refused
C38_Witness ==
  /\ BackToBack("Write") /\ enableRootSquash
  /\ prev.req.Credentials = UserCreds /\ prev.resp.Status = "OK"
  /\ last.req.Credentials = RootCreds
  /\ WriteCacheKey(last.req) = WriteCacheKey(prev.req)
  /\ WriteCacheKey(last.req) \in DOMAIN reqCache
  /\ last.resp.Status = "ERR_ACCES"

\* two exclusive creates of the same name, which did not exist, have both
\* returned
ExclusiveRace(r1, r2) ==
  /\ r1 # r2
  /\ calls[r1].pc = "returned" /\ calls[r2].pc = "returned"
  /\ calls[r1].excl /\ calls[r2].excl
  /\ calls[r1].name = calls[r2].name
  /\ Join(rootPath, calls[r1].name) \notin DOMAIN InitTree

\* C37: of two exclusive creates of the same name made at once on a name that
\* does not exist, at most one succeeds and the other fails with
\* already-exists.
C37_OneWinner ==
  \A r1 \in DOMAIN calls, r2 \in DOMAIN calls :
    ExclusiveRace(r1, r2)
      => {calls[r1].err, calls[r2].err} = {"", "ErrExist"}

\* C37: the open of an exclusive create never empties a file that holds data.
C37_NeverTruncates ==
  [][\A r \in Creators, fresh \in FreshInodes :
       (CreatorOpens(r, fresh) /\ calls[r].excl)
         => \A n \in DOMAIN hostIno : n \in DOMAIN hostIno' /\ hostIno'[n] = hostIno[n]]_vars

\* C37 (the part that holds): an exclusive create that starts after the name
\* exists fails with already-exists and touches nothing.
C37_LateLoser ==
  [][\A r \in Creators, name \in {<<"x">>, <<"a">>} :
       (CreatorChecks(r, name, TRUE) /\ Join(rootPath, name) \in DOMAIN hostTree)
         => /\ calls'[r].pc = "returned" /\ calls'[r].err = "ErrExist"
            /\ hostTree' = hostTree /\ hostIno' = hostIno]_vars

\* the gRPC codes the client retries
RetriedCodes == {"Unavailable", "ResourceExhausted", "Aborted", "Internal", "Unknown"}

\* what holds of a call of callWithRetry at every moment
RetryContract ==
  Let(calls.outcomes, LAMBDA o :
    /\ Len(o) <= calls.MaxRetries + 1
    /\ \A i \in 1..(Len(o) - 1) : o[i] \in RetriedCodes
    /\ (Len(o) > 0 /\ o[Len(o)] \notin RetriedCodes)
         => (calls.pc = "returned" /\ calls.result = [kind |-> "fn", err |-> o[Len(o)]])
    /\ (calls.pc = "returned" /\ calls.result.kind = "fn")
         => (Len(o) > 0 /\ calls.result.err = o[Len(o)] /\ o[Len(o)] \notin RetriedCodes)
    /\ (calls.pc = "returned" /\ calls.result.kind = "wrapped")
         => /\ Len(o) = calls.MaxRetries + 1
            /\ \A i \in 1..Len(o) : o[i] \in RetriedCodes
            /\ calls.result.err = o[Len(o)]
    /\ (Len(o) = calls.MaxRetries + 1) => calls.pc = "returned"
    /\ (calls.pc = "returned" /\ calls.result.kind = "ctx") => calls.ctxDone
    /\ calls.cancelledAt # Nil => Len(o) = calls.cancelledAt)

\* C40: callWithRetry invokes the RPC at most MaxRetries + 1 times; it returns
\* the RPC's result at the first success or non-retryable error; it makes no
\* attempt after the context was cancelled during a wait; after
\* MaxRetries + 1 retryable failures it returns an error wrapping the last
\* one; and it always returns.
C40_BoundedRetry == []RetryContract /\ <>(calls.pc = "returned")

\* with MaxRetries 2, three attempts failed retryably and the call returned
\* the last failure wrapped
C40_Witness ==
  /\ "outcomes" \in DOMAIN calls
  /\ calls.MaxRetries = 2
  /\ calls.outcomes = <<"Unavailable", "Internal", "Aborted">>
  /\ calls.pc = "returned" /\ calls.result = [kind |-> "wrapped", err |-> "Aborted"]

\* the context was cancelled during the first wait and the call returned the
\* context's error after one attempt
C40_WitnessCancelled ==
  /\ "outcomes" \in DOMAIN calls
  /\ calls.cancelledAt = 1 /\ calls.pc = "returned"
  /\ calls.result.kind = "ctx" /\ Len(calls.outcomes) = 1

====
